---- MODULE Spec2Model ----
(***************************************************************************)
(* pbj: the multi-solute block linear-system assembler                     *)
(* (pbj/electrostatics/simulation.py, class Simulation) and the per-solute *)
(* state it drives (pbj/electrostatics/solute.py, class Solute).           *)
(*                                                                         *)
(* Operators, right-hand sides and preconditioner blocks are opaque to the *)
(* assembler; they are modelled as tokens that record who built them, in   *)
(* which assembly call, and under which parameters.  The formulation       *)
(* modules (pbj.electrostatics.pb_formulation.formulations) and            *)
(* pbj.electrostatics.utils are not part of the sources at hand; their     *)
(* behaviour is modelled from the specification.                           *)
(***************************************************************************)
EXTENDS Integers, Sequences, FiniteSets, TLC

\* ------------------------------------------------------------------------
\* Bounds of the model
\* ------------------------------------------------------------------------
\* number of Solute objects that can be constructed
MaxSolutes == 3
\* number of assembly calls (full or right-hand-side only)
MaxAssemblies == 2

SoluteIds == 1..MaxSolutes

\* ------------------------------------------------------------------------
\* Values
\* ------------------------------------------------------------------------
None == "None"
NoError == "ok"
\* A dictionary key that is not set is the empty sequence, a key that is set is
\* the one-element sequence of its value.
Absent == << >>
Some(x) == <<x>>
IsSet(o) == o # << >>
Get(o) == o[1]
\* matrices["preconditioning_matrix_gmres"]: not set, None, or a list of rows
\* of blocks.
NoPrecond == [state |-> "absent", rows |-> << >>]
NonePrecond == [state |-> "none", rows |-> << >>]
Blocks(rows) == [state |-> "blocks", rows |-> rows]

\* Formulation modules of the formulations package.
Formulations == {"direct", "direct_stern", "slic", "direct_amoeba", "alpha_beta"}
\* Formulations whose interface carries a Stern / ion-exclusion layer.
SternFormulations == {"direct_stern", "slic"}
\* Names a caller may pass: the formulations and one name of no formulation.
FormulationNames == Formulations \cup {"bogus"}
\* Names handed to the property setters and to Solute(...).
SetterNames == {"direct", "direct_stern", "bogus"}
ForceFields == {"amber", "amoeba"}
PreconditioningTypes == {"block_diagonal", "mass_matrix", "bogus"}

\* getattr(pb_formulations, name, None)
Resolve(name) == IF name \in Formulations THEN name ELSE None

\* Preconditioner builders a formulation module defines:
\* <type>_preconditioner (kind "lhs") and <type>_preconditioner_rhs (kind "rhs").
HasBuilder(fobj, type, kind) ==
    /\ fobj \in Formulations
    /\ type \in {"block_diagonal", "mass_matrix"}
    /\ kind \in {"lhs", "rhs"}

\* Number of sub-blocks per row of a self block built by a formulation.
NSub(form) == IF form \in SternFormulations THEN 4 ELSE 2

\* Degrees of freedom of a solute's dielectric and Stern interfaces.
DielDof(s) == 2 * s + 1
SternDof(s) == 2 * s + 2

\* ------------------------------------------------------------------------
\* Python sequence access (0-based, negative indices count from the end)
\* ------------------------------------------------------------------------
IndexInRange(seq, k) == (k >= 0 /\ k < Len(seq)) \/ (k < 0 /\ 0 - k <= Len(seq))
PyIndex(seq, k) == IF k >= 0 THEN seq[k + 1] ELSE seq[Len(seq) + k + 1]

Take(seq, n) == SubSeq(seq, 1, IF n < Len(seq) THEN n ELSE Len(seq))

RECURSIVE Flatten(_)
Flatten(ss) == IF ss = << >> THEN << >> ELSE Head(ss) \o Flatten(Tail(ss))

InList(x, seq) == \E k \in 1..Len(seq) : seq[k] = x

\* ------------------------------------------------------------------------
\* State
\* ------------------------------------------------------------------------
VARIABLES
    sim,    \* the Simulation object
    sol,    \* the Solute objects, by id
    gen,    \* number of assembly calls made so far
    last,   \* the last operation: its name, arguments and outcome
    amoeba  \* the multipole data of one AMOEBA Solute, Absent for amber ones

vars == <<sim, sol, gen, last, amoeba>>

\* ------------------------------------------------------------------------
\* Solute.__init__
\* ------------------------------------------------------------------------
EmptyRhs == [k \in 1..4 |-> Absent]

\* A slot in which no Solute has been constructed.
NoSolute ==
    [ status |-> "none", pb_formulation |-> None, formulation_object |-> None,
      force_field |-> None, ep_in |-> 4, ep_ex |-> 0, kappa |-> 0,
      pb_formulation_beta |-> 0,
      pb_formulation_preconditioning |-> FALSE,
      pb_formulation_preconditioning_type |-> None,
      user_stern_attrs |-> FALSE, stern_object |-> FALSE,
      A |-> Absent, A_final |-> Absent, A_discrete |-> Absent,
      A_inter |-> << >>, precond |-> NoPrecond,
      rhs |-> EmptyRhs, rhs_final |-> Absent, rhs_discrete |-> Absent,
      phi |-> Absent, solvation_energy |-> Absent ]

\* The formulation name a Solute ends up with.
SoluteFormulationName(formulation, force_field) ==
    IF force_field = "amoeba" /\ formulation # "direct" THEN "direct" ELSE formulation

\* The object a successful Solute.__init__ leaves.
NewSoluteRecord(formulation, force_field) ==
    [ NoSolute EXCEPT
        !.status = "ok",
        !.pb_formulation = SoluteFormulationName(formulation, force_field),
        !.formulation_object = Resolve(SoluteFormulationName(formulation, force_field)),
        !.force_field = force_field,
        !.ep_ex = 80,
        !.kappa = 125,
        !.pb_formulation_beta = 80 \div 4,
        !.pb_formulation_preconditioning = TRUE,
        !.pb_formulation_preconditioning_type = "mass_matrix" ]

\* The object __init__ leaves when the solute file does not exist: it returns
\* before any attribute is set.
BareSolute == [ NoSolute EXCEPT !.status = "bare" ]

\* ------------------------------------------------------------------------
\* Simulation.__init__
\* ------------------------------------------------------------------------
\* Mutant of SimulationFormulationName: the name is taken as given.
SimulationFormulationNameAsGiven(formulation, stern_layer) == formulation

SimulationFormulationName(formulation, stern_layer) ==
    IF stern_layer /\ formulation # "slic" THEN "direct_stern" ELSE formulation

\* self._pb_formulation == ("direct" or "direct_stern" or "slic" or "direct_amoeba")
\* compares with "direct" alone: `or` returns its first true operand.
DefaultPreconditioningType(name) ==
    IF name = "direct" THEN "block_diagonal" ELSE "mass_matrix"

NoSimulation ==
    [ status |-> "failed", pb_formulation |-> None, formulation_object |-> None,
      pb_formulation_preconditioning |-> FALSE,
      pb_formulation_preconditioning_type |-> None,
      ep_ex |-> 0, kappa |-> 0, solutes |-> << >>,
      A_discrete |-> Absent, precond |-> NoPrecond,
      rhs |-> [k \in SoluteIds |-> Absent], rhs_discrete |-> Absent ]

NewSimulation(formulation, stern_layer) ==
    IF Resolve(SimulationFormulationName(formulation, stern_layer)) = None
    THEN NoSimulation
    ELSE [ NoSimulation EXCEPT
             !.status = "ok",
             !.pb_formulation = SimulationFormulationName(formulation, stern_layer),
             !.formulation_object =
                 Resolve(SimulationFormulationName(formulation, stern_layer)),
             !.pb_formulation_preconditioning = TRUE,
             !.pb_formulation_preconditioning_type =
                 DefaultPreconditioningType(
                     SimulationFormulationName(formulation, stern_layer)),
             !.ep_ex = 80,
             !.kappa = 125 ]

\* The record of an operation: name, arguments, error raised (NoError when it
\* returned), the solute at which the error was raised, and the number of
\* self-block constructions and coupling-builder calls it made.
Op(name, arg, err, at, lhs, inter) ==
    [ op |-> name, arg |-> arg, stern_layer |-> FALSE, force_field |-> None,
      file |-> TRUE, err |-> err, at |-> at, lhs |-> lhs, inter |-> inter ]

InitConstruction ==
    \E formulation \in FormulationNames, stern_layer \in BOOLEAN :
        /\ sim = NewSimulation(formulation, stern_layer)
        /\ sol = [s \in SoluteIds |-> NoSolute]
        /\ gen = 0
        /\ amoeba = Absent
        /\ last = [ Op("Simulation.__init__", formulation,
                       IF NewSimulation(formulation, stern_layer).status = "ok"
                       THEN NoError ELSE "UnrecognisedFormulation", 0, 0, 0)
                    EXCEPT !.stern_layer = stern_layer ]

\* Solute(...): constructs the next Solute object of the pool.
NewSolute(s, formulation, force_field, file) ==
    /\ sol[s].status = "none"
    /\ \A t \in SoluteIds : t < s => sol[t].status # "none"
    /\ LET name == SoluteFormulationName(formulation, force_field)
           err == IF file /\ Resolve(name) = None
                  THEN "UnrecognisedFormulation" ELSE NoError
       IN /\ sol' = [sol EXCEPT ![s] =
                        IF ~file THEN BareSolute
                        ELSE IF err # NoError THEN NoSolute
                        ELSE NewSoluteRecord(formulation, force_field)]
          /\ last' = [ Op("Solute.__init__", formulation, err, s, 0, 0)
                       EXCEPT !.force_field = force_field, !.file = file ]
    /\ UNCHANGED <<sim, gen, amoeba>>

\* The caller assigns the two attributes that Solute.__init__ does not set and
\* that the Simulation reads: stern_mesh_density_ratio and ep_stern.
AssignSternAttributes(s) ==
    /\ sol[s].status = "ok"
    /\ ~sol[s].user_stern_attrs
    /\ sol' = [sol EXCEPT ![s].user_stern_attrs = TRUE]
    /\ last' = Op("assign_stern_attributes", None, NoError, s, 0, 0)
    /\ UNCHANGED <<sim, gen, amoeba>>

\* ------------------------------------------------------------------------
\* Property setters
\* ------------------------------------------------------------------------
Owned(sm, s) == InList(s, sm.solutes)

\* Solute.pb_formulation (setter): the object it leaves, raising or not.
SolutePbFormulationSetter(r, value) ==
    [ r EXCEPT !.pb_formulation = value,
               !.formulation_object = Resolve(value),
               !.precond = IF r.precond.state = "absent" THEN NonePrecond ELSE r.precond ]

\* The setters raise ValueError("Unrecognised formulation type") when the name
\* resolves to nothing.
FormulationSetterError(value) ==
    IF Resolve(value) = None THEN "UnrecognisedFormulation" ELSE NoError

\* Simulation.pb_formulation (setter): the Simulation it leaves.
SimPbFormulationSetter(sm, value) ==
    [ sm EXCEPT !.pb_formulation = value,
                !.formulation_object = Resolve(value),
                !.precond = NonePrecond ]

\* Simulation.pb_formulation (setter): the solutes it leaves; the loop over
\* the solutes comes after the raise.
SimPbFormulationSolutes(sm, sl, value) ==
    IF Resolve(value) = None THEN sl
    ELSE [s \in SoluteIds |->
            IF Owned(sm, s) THEN SolutePbFormulationSetter(sl[s], value) ELSE sl[s]]

SetSimPbFormulation(value) ==
    /\ sim.status = "ok"
    /\ sim' = SimPbFormulationSetter(sim, value)
    /\ sol' = SimPbFormulationSolutes(sim, sol, value)
    /\ last' = Op("Simulation.pb_formulation", value, FormulationSetterError(value), 0, 0, 0)
    /\ UNCHANGED <<gen, amoeba>>

SetSolutePbFormulation(s, value) ==
    /\ sol[s].status = "ok"
    /\ sol' = [sol EXCEPT ![s] = SolutePbFormulationSetter(sol[s], value)]
    /\ last' = Op("Solute.pb_formulation", value, FormulationSetterError(value), s, 0, 0)
    /\ UNCHANGED <<sim, gen, amoeba>>

SetSimPreconditioning(value) ==
    /\ sim.status = "ok"
    /\ sim' = [sim EXCEPT !.pb_formulation_preconditioning = value]
    /\ sol' = [s \in SoluteIds |->
                 IF Owned(sim, s)
                 THEN [sol[s] EXCEPT !.pb_formulation_preconditioning = value]
                 ELSE sol[s]]
    /\ last' = Op("Simulation.pb_formulation_preconditioning", None, NoError, 0, 0, 0)
    /\ UNCHANGED <<gen, amoeba>>

SetSimPreconditioningType(value) ==
    /\ sim.status = "ok"
    /\ sim' = [sim EXCEPT !.pb_formulation_preconditioning_type = value]
    /\ sol' = [s \in SoluteIds |->
                 IF Owned(sim, s)
                 THEN [sol[s] EXCEPT !.pb_formulation_preconditioning_type = value]
                 ELSE sol[s]]
    /\ last' = Op("Simulation.pb_formulation_preconditioning_type", value, NoError, 0, 0, 0)
    /\ UNCHANGED <<gen, amoeba>>

SetSimKappa(value) ==
    /\ sim.status = "ok"
    /\ sim' = [sim EXCEPT !.kappa = value]
    /\ sol' = [s \in SoluteIds |->
                 IF Owned(sim, s) THEN [sol[s] EXCEPT !.kappa = value] ELSE sol[s]]
    /\ last' = Op("Simulation.kappa", None, NoError, 0, 0, 0)
    /\ UNCHANGED <<gen, amoeba>>

\* Position in the solute list
PositionOf(sm, s) == CHOOSE k \in 1..Len(sm.solutes) : sm.solutes[k] = s

\* Simulation.ep_ex (setter): solute.ep_stern is read for every owned solute;
\* the position of the first solute that has no such attribute, 0 when all have.
EpExFailsAt(sm, sl) ==
    IF \E k \in 1..Len(sm.solutes) : ~sl[sm.solutes[k]].user_stern_attrs
    THEN CHOOSE k \in 1..Len(sm.solutes) :
            /\ ~sl[sm.solutes[k]].user_stern_attrs
            /\ \A m \in 1..(k - 1) : sl[sm.solutes[m]].user_stern_attrs
    ELSE 0

SimEpExSolutes(sm, sl, value) ==
    [s \in SoluteIds |->
        IF ~Owned(sm, s) THEN sl[s]
        ELSE IF EpExFailsAt(sm, sl) = 0 \/ PositionOf(sm, s) < EpExFailsAt(sm, sl)
             THEN [sl[s] EXCEPT !.ep_ex = value,
                                !.pb_formulation_beta = value \div sl[s].ep_in]
        ELSE IF PositionOf(sm, s) = EpExFailsAt(sm, sl)
             THEN [sl[s] EXCEPT !.ep_ex = value]
        ELSE sl[s]]

SetSimEpEx(value) ==
    /\ sim.status = "ok"
    /\ sim' = [sim EXCEPT !.ep_ex = value]
    /\ sol' = SimEpExSolutes(sim, sol, value)
    /\ last' = Op("Simulation.ep_ex", None,
                  IF EpExFailsAt(sim, sol) = 0 THEN NoError ELSE "AttributeError",
                  IF EpExFailsAt(sim, sol) = 0 THEN 0
                  ELSE sim.solutes[EpExFailsAt(sim, sol)], 0, 0)
    /\ UNCHANGED <<gen, amoeba>>

\* ------------------------------------------------------------------------
\* Simulation.add_solute
\* ------------------------------------------------------------------------
\* self.pb_formulation[-5:] == "stern" or self.pb_formulation == "slic"
IsSternName(name) == name = "direct_stern" \/ name = "slic"

\* The shared parameters the solute receives.
AddSoluteParameters(sm, r) ==
    [ r EXCEPT !.ep_ex = sm.ep_ex,
               !.kappa = sm.kappa,
               !.pb_formulation_preconditioning = sm.pb_formulation_preconditioning,
               !.pb_formulation_preconditioning_type =
                   sm.pb_formulation_preconditioning_type ]

\* solute.stern_mesh_density = solute.stern_mesh_density_ratio * solute.mesh_density
\* raises AttributeError unless the caller has set the ratio; its setter builds
\* the Stern mesh (direct_stern.create_stern_mesh).
AddSoluteSternError(sm, r) ==
    IsSternName(sm.pb_formulation) /\ (r.status = "bare" \/ ~r.user_stern_attrs)

AddSoluteStern(sm, r) ==
    IF IsSternName(sm.pb_formulation) /\ ~AddSoluteSternError(sm, r)
    THEN [r EXCEPT !.stern_object = TRUE] ELSE r

\* solute.force_field is not set on an object whose constructor returned early.
AddSoluteError(sm, r) ==
    IF AddSoluteSternError(sm, r) \/ r.status = "bare" THEN "AttributeError" ELSE NoError

\* An object handed to add_solute that is not of the Solute class.
NotASolute == 0

\* isinstance(solute, pbj.electrostatics.solute.Solute)
IsSoluteInstance(s) == s \in SoluteIds

\* Mutant of AddedList: the solute is put at the head of the list.
AddedListAtHead(sm, s) == <<s>> \o sm.solutes

\* self.solutes.append(solute)
AddedList(sm, s) == Append(sm.solutes, s)

add_solute(s) ==
    /\ sim.status = "ok"
    /\ \/ /\ ~IsSoluteInstance(s)
          /\ UNCHANGED <<sim, sol>>
          /\ last' = Op("add_solute", None, "ValueError", NotASolute, 0, 0)
       \/ /\ IsSoluteInstance(s)
          /\ sol[s].status \in {"ok", "bare"}
          /\ LET r == AddSoluteStern(sim, AddSoluteParameters(sim, sol[s]))
                 err == AddSoluteError(sim, sol[s])
                 is_amoeba == err = NoError /\ r.force_field = "amoeba"
                 sl == [sol EXCEPT ![s] = r]
             IN IF Owned(sim, s)
                THEN /\ UNCHANGED <<sim, sol>>
                     /\ last' = Op("add_solute", None, NoError, s, 0, 0)
                ELSE /\ sim' = IF err # NoError THEN sim
                               ELSE IF is_amoeba
                               THEN [SimPbFormulationSetter(sim, "direct_amoeba")
                                       EXCEPT !.solutes = AddedList(sim, s)]
                               ELSE [sim EXCEPT !.solutes = AddedList(sim, s)]
                     /\ sol' = IF is_amoeba
                               THEN SimPbFormulationSolutes(sim, sl, "direct_amoeba")
                               ELSE sl
                     /\ last' = Op("add_solute", None, err, s, 0, 0)
    /\ UNCHANGED <<gen, amoeba>>

\* ------------------------------------------------------------------------
\* Operators, right-hand sides and preconditioner blocks
\* ------------------------------------------------------------------------
\* An operator between two interfaces, built in assembly call g under the
\* parameters of the solute that triggered the construction.  form is
\* "operator" for the continuous operator and "weak" or "strong" for its
\* discrete forms.
Operator(kind, target, source, g, r, form) ==
    [ kind |-> kind, target |-> target, source |-> source, gen |-> g,
      formulation |-> r.pb_formulation, ep_ex |-> r.ep_ex, kappa |-> r.kappa,
      form |-> form ]

\* An entry of np.empty(..., dtype="O") that was never assigned.
EmptyEntry ==
    [ kind |-> "none", target |-> 0, source |-> 0, gen |-> 0,
      formulation |-> None, ep_ex |-> 0, kappa |-> 0, form |-> None ]

\* operator.weak_form() / operator.strong_form(), utils.matrix_to_discrete_form
matrix_to_discrete_form(op, form) == [op EXCEPT !.form = form]

\* One contribution to a solute's right-hand side.
RhsVector(s, k, g) == [owner |-> s, k |-> k, gen |-> g, form |-> "function"]

\* self.rhs["rhs_final"] and self.rhs["rhs_discrete"] are lists; as items of
\* the rhs dictionary they sort after rhs_1 .. rhs_4.
RhsListItem(s, k) == [owner |-> s, k |-> k, gen |-> 0, form |-> "list"]

\* utils.rhs_to_discrete_form: the discrete form of every entry, in order.
rhs_to_discrete_form(rhs_list, form) ==
    [k \in 1..Len(rhs_list) |-> [rhs_list[k] EXCEPT !.form = form]]

\* Rows and columns of sub-block (r, c) of a solute's layout.
SubDof(s, k) == IF k <= 2 THEN DielDof(s) ELSE SternDof(s)

\* A block of a solute's own preconditioner.
PrecondBlock(s, r, c, A) ==
    [ kind |-> "own", owner |-> s, r |-> r, c |-> c,
      rows |-> SubDof(s, r), cols |-> SubDof(s, c), of |-> A ]

\* dok_matrix((M, N))
zero_matrix(M, N) ==
    [ kind |-> "zero", owner |-> 0, r |-> 0, c |-> 0,
      rows |-> M, cols |-> N, of |-> EmptyEntry ]

\* ------------------------------------------------------------------------
\* The formulation modules (lhs, rhs, preconditioner builders, coupling builder)
\* ------------------------------------------------------------------------
\* formulation.verify_parameters(solute)
verify_parameters(r) == TRUE

\* A Stern formulation reads the solute's Stern interface.
NeedsMissingStern(r) == r.formulation_object \in SternFormulations /\ ~r.stern_object

\* formulation.lhs(solute): stores the self-interaction operator.
FormulationLhs(s, r, g) ==
    [r EXCEPT !.A = Some(Operator("self", s, s, g, r, "operator"))]

\* formulation.rhs(solute): stores rhs_1, rhs_2 (and rhs_3, rhs_4 with a Stern layer).
FormulationRhs(s, r, g) ==
    [r EXCEPT !.rhs = [k \in 1..4 |->
                         IF k <= NSub(r.formulation_object)
                         THEN Some(RhsVector(s, k, g)) ELSE r.rhs[k]]]

NumberedRhs(r, n) == [k \in 1..n |-> Get(r.rhs[k])]

\* <formulation>.block_diagonal_preconditioner(solute)
block_diagonal_preconditioner(s, r) ==
    LET n == NSub(Get(r.A).formulation)
    IN [r EXCEPT
          !.precond = Blocks([i \in 1..n |-> [j \in 1..n |-> PrecondBlock(s, i, j, Get(r.A))]]),
          !.A_final = r.A,
          !.rhs_final = Some(NumberedRhs(r, n)),
          !.A_discrete = Some(matrix_to_discrete_form(Get(r.A), "weak")),
          !.rhs_discrete = Some(rhs_to_discrete_form(NumberedRhs(r, n), "weak"))]

\* <formulation>.mass_matrix_preconditioner(solute)
mass_matrix_preconditioner(s, r) ==
    LET n == NSub(Get(r.A).formulation)
    IN [r EXCEPT
          !.A_final = r.A,
          !.rhs_final = Some(NumberedRhs(r, n)),
          !.A_discrete = Some(matrix_to_discrete_form(Get(r.A), "strong")),
          !.rhs_discrete = Some(rhs_to_discrete_form(NumberedRhs(r, n), "strong"))]

\* <formulation>.<type>_preconditioner_rhs(solute): the vectors only.
preconditioner_rhs(s, r) ==
    LET n == NSub(Get(r.A).formulation)
        form == IF r.pb_formulation_preconditioning_type = "block_diagonal"
                THEN "weak" ELSE "strong"
    IN [r EXCEPT
          !.rhs_final = Some(NumberedRhs(r, n)),
          !.rhs_discrete = Some(rhs_to_discrete_form(NumberedRhs(r, n), form))]

\* formulation.lhs_inter_solute_interactions(simulation, target, source):
\* appends the coupling operator to the target's A_inter list.
lhs_inter_solute_interactions(sl, target, source, g) ==
    [sl EXCEPT ![target].A_inter =
        Append(@, Operator("inter", target, source, g, sl[target], "operator"))]

\* ------------------------------------------------------------------------
\* Solute.apply_preconditioning, Solute.apply_preconditioning_rhs
\* ------------------------------------------------------------------------
\* [rhs for key, rhs in sorted(self.rhs.items())]
SortedRhsItems(s, r) ==
    LET numbered == {k \in 1..4 : IsSet(r.rhs[k])}
        Ordered[S \in SUBSET (1..4)] ==
            IF S = {} THEN << >>
            ELSE LET m == CHOOSE x \in S : \A y \in S : x <= y
                 IN <<Get(r.rhs[m])>> \o Ordered[S \ {m}]
    IN Ordered[numbered]
       \o (IF IsSet(r.rhs_discrete) THEN <<RhsListItem(s, 5)>> ELSE << >>)
       \o (IF IsSet(r.rhs_final) THEN <<RhsListItem(s, 6)>> ELSE << >>)

\* The branch that looks a builder up.
UsesBuilder(r) == r.pb_formulation_preconditioning

\* Mutant of ApplyPreconditioningError: the builder is looked up whether or
\* not preconditioning is enabled.
ApplyPreconditioningErrorAlwaysLooksUp(r) ==
    IF HasBuilder(r.formulation_object, r.pb_formulation_preconditioning_type, "lhs")
    THEN (IF IsSet(r.A) THEN NoError ELSE "KeyError")
    ELSE "UnrecognisedPreconditioning"

\* The error apply_preconditioning ends with.
ApplyPreconditioningError(r) ==
    IF UsesBuilder(r)
    THEN IF HasBuilder(r.formulation_object, r.pb_formulation_preconditioning_type, "lhs")
         THEN (IF IsSet(r.A) THEN NoError ELSE "KeyError")
         ELSE "UnrecognisedPreconditioning"
    ELSE IF IsSet(r.A) THEN NoError ELSE "KeyError"

\* The solute apply_preconditioning leaves when it does not raise.
apply_preconditioning(s, r) ==
    IF UsesBuilder(r)
    THEN IF r.pb_formulation_preconditioning_type = "block_diagonal"
         THEN block_diagonal_preconditioner(s, r)
         ELSE mass_matrix_preconditioner(s, r)
    ELSE LET final == Take(SortedRhsItems(s, r), NSub(Get(r.A).formulation))
         IN [r EXCEPT
               !.A_final = r.A,
               !.rhs_final = Some(final),
               !.A_discrete = Some(matrix_to_discrete_form(Get(r.A), "weak")),
               !.rhs_discrete = Some(rhs_to_discrete_form(final, "weak"))]

\* The branch of apply_preconditioning_rhs that looks a builder up.
UsesBuilderRhs(r) == r.pb_formulation_preconditioning /\ r.precond.state = "none"

ApplyPreconditioningRhsError(r) ==
    IF UsesBuilderRhs(r)
    THEN IF HasBuilder(r.formulation_object, r.pb_formulation_preconditioning_type, "rhs")
         THEN (IF IsSet(r.A) THEN NoError ELSE "KeyError")
         ELSE "UnrecognisedPreconditioning"
    ELSE IF IsSet(r.A) THEN NoError ELSE "KeyError"

apply_preconditioning_rhs(s, r) ==
    IF UsesBuilderRhs(r)
    THEN preconditioner_rhs(s, r)
    ELSE LET final == Take(SortedRhsItems(s, r), NSub(Get(r.A).formulation))
         IN [r EXCEPT
               !.rhs_final = Some(final),
               !.rhs_discrete = Some(rhs_to_discrete_form(final, "weak"))]

\* ------------------------------------------------------------------------
\* Simulation.create_and_assemble_linear_system: the loop over the solutes
\* ------------------------------------------------------------------------
\* Mutant of SelfBlock: the continuous operator is placed, not its discrete form.
SelfBlockNotDiscrete(r) == Get(r.A_final)

\* A[index, index] = solute.matrices["A_discrete"]
SelfBlock(r) == Get(r.A_discrete)

\* Mutant of ExtendRhs: the solute's entries are put in front.
ExtendRhsInFront(rhs_final_discrete, r) == Get(r.rhs_discrete) \o rhs_final_discrete

\* rhs_final_discrete.extend(solute.rhs["rhs_discrete"])
ExtendRhs(rhs_final_discrete, r) == rhs_final_discrete \o Get(r.rhs_discrete)

\* self.rhs["rhs_" + str(index + 1)] = [solute.rhs["rhs_1"], solute.rhs["rhs_2"]]
SoluteRhsRecord(r) == <<Get(r.rhs[1]), Get(r.rhs[2])>>

\* solute.matrices["preconditioning_matrix_gmres"] is not None
HasOwnPreconditioner(r) == r.precond.state = "blocks"

\* The zero blocks a solute's rows get in the columns of another solute.
ZeroFill(s, q, source, stern) ==
    IF stern
    THEN << zero_matrix(SubDof(s, q), DielDof(source)),
            zero_matrix(SubDof(s, q), DielDof(source)),
            zero_matrix(SubDof(s, q), SternDof(source)),
            zero_matrix(SubDof(s, q), SternDof(source)) >>
    ELSE << zero_matrix(DielDof(s), DielDof(source)),
            zero_matrix(DielDof(s), DielDof(source)) >>

\* The rows solute number i of the list contributes to precond_matrix.
PrecondRows(sm, sl, i) ==
    LET s == sm.solutes[i]
        P == sl[s].precond.rows
        n == IF sl[s].stern_object THEN 4 ELSE 2
    IN [q \in 1..n |->
          Flatten([k \in 1..Len(sm.solutes) |->
                     IF k = i THEN P[q]
                     ELSE ZeroFill(s, q, sm.solutes[k], sl[s].stern_object)])]

\* The error the construction of these rows ends with: a solute with a Stern
\* layer indexes four rows of its own preconditioner, reads the Stern
\* interface of every other solute, and then its rhs_3 and rhs_4.
PrecondRowsError(sm, sl, i) ==
    LET s == sm.solutes[i]
        P == sl[s].precond.rows
        Bad(k) == IF k = i THEN Len(P) < 4 ELSE ~sl[sm.solutes[k]].stern_object
    IN IF ~sl[s].stern_object THEN NoError
       ELSE IF \E k \in 1..Len(sm.solutes) : Bad(k)
       THEN LET k == CHOOSE x \in 1..Len(sm.solutes) :
                        Bad(x) /\ \A y \in 1..(x - 1) : ~Bad(y)
            IN IF k = i THEN "IndexError" ELSE "AttributeError"
       ELSE IF IsSet(sl[s].rhs[3]) /\ IsSet(sl[s].rhs[4]) THEN NoError
       ELSE "KeyError"

\* The state of the loop: the solutes, self.rhs, the diagonal of A,
\* rhs_final_discrete, precond_matrix, the error raised and where, and the
\* number of calls of formulation.lhs.
SelfLoopStart(sm, sl) ==
    [ sl |-> sl, srhs |-> sm.rhs, diag |-> << >>, rfd |-> << >>, pm |-> << >>,
      err |-> NoError, at |-> 0, lhs |-> 0 ]

\* The end of an iteration: the preconditioned solute r4 gives its blocks.
SelfStepPlace(sm, acc, i, r4) ==
    LET s == sm.solutes[i]
        sl4 == [acc.sl EXCEPT ![s] = r4]
        srhs4 == [acc.srhs EXCEPT ![i] = Some(SoluteRhsRecord(r4))]
        e6 == IF HasOwnPreconditioner(r4) THEN PrecondRowsError(sm, sl4, i) ELSE NoError
    IN IF e6 # NoError
       THEN [acc EXCEPT !.sl = sl4, !.srhs = srhs4, !.err = e6, !.at = s, !.lhs = @ + 1]
       ELSE [acc EXCEPT
               !.sl = sl4,
               !.srhs = IF HasOwnPreconditioner(r4) /\ r4.stern_object
                        THEN [srhs4 EXCEPT ![i] =
                                Some(Get(@) \o <<Get(r4.rhs[3]), Get(r4.rhs[4])>>)]
                        ELSE srhs4,
               !.diag = Append(@, SelfBlock(r4)),
               !.rfd = ExtendRhs(@, r4),
               !.pm = IF HasOwnPreconditioner(r4) THEN @ \o PrecondRows(sm, sl4, i) ELSE @,
               !.lhs = @ + 1]

\* solute.apply_preconditioning() on the solute r3 that holds A and rhs.
SelfStepPrecondition(sm, acc, i, r3) ==
    IF ApplyPreconditioningError(r3) # NoError
    THEN [acc EXCEPT !.sl[sm.solutes[i]] = r3, !.err = ApplyPreconditioningError(r3),
                     !.at = sm.solutes[i], !.lhs = @ + 1]
    ELSE SelfStepPlace(sm, acc, i, apply_preconditioning(sm.solutes[i], r3))

\* formulation.lhs and formulation.rhs on the solute r1 whose formulation is set.
SelfStepBuild(sm, acc, i, r1, g) ==
    IF FormulationSetterError(sm.pb_formulation) # NoError
    THEN [acc EXCEPT !.sl[sm.solutes[i]] = r1,
                     !.err = FormulationSetterError(sm.pb_formulation),
                     !.at = sm.solutes[i]]
    ELSE IF NeedsMissingStern(r1)
    THEN [acc EXCEPT !.sl[sm.solutes[i]] = r1, !.err = "AttributeError",
                     !.at = sm.solutes[i], !.lhs = @ + 1]
    ELSE SelfStepPrecondition(sm, acc, i,
            FormulationRhs(sm.solutes[i], FormulationLhs(sm.solutes[i], r1, g), g))

\* One iteration of the loop, for solute number i of the list.
SelfStep(sm, acc, i, g) ==
    SelfStepBuild(sm, acc, i,
                  SolutePbFormulationSetter(acc.sl[sm.solutes[i]], sm.pb_formulation), g)

RECURSIVE SelfLoop(_, _, _, _)
SelfLoop(sm, acc, i, g) ==
    IF i > Len(sm.solutes) \/ acc.err # NoError THEN acc
    ELSE SelfLoop(sm, SelfStep(sm, acc, i, g), i + 1, g)

\* scipy.sparse.bmat: every row has the same number of blocks, the blocks of
\* a row the same number of rows, the blocks of a column the same number of
\* columns; otherwise it raises ValueError.
BmatAccepts(pm) ==
    /\ \A a, b \in 1..Len(pm) : Len(pm[a]) = Len(pm[b])
    /\ \A a \in 1..Len(pm) : \A c, d \in 1..Len(pm[a]) : pm[a][c].rows = pm[a][d].rows
    /\ \A a, b \in 1..Len(pm) : \A c \in 1..Len(pm[a]) :
          c <= Len(pm[b]) => pm[a][c].cols = pm[b][c].cols

\* ------------------------------------------------------------------------
\* Simulation.create_and_assemble_linear_system: the coupling blocks
\* ------------------------------------------------------------------------
\* Mutant of IsCrossPair: the diagonal is not skipped.
IsCrossPairAlways(i, j) == TRUE

\* Mutant of IndexArray: the shift is applied on both sides of the diagonal.
IndexArrayAlwaysShifted(i, j) == j - 1

\* if i != j
IsCrossPair(i, j) == i # j

\* index_array: the position in the target's A_inter list
IndexArray(i, j) == IF i > j THEN j ELSE j - 1

\* The array A with the diagonal filled in.
DiagonalArray(diag) ==
    [i \in 1..Len(diag) |-> [j \in 1..Len(diag) |-> IF i = j THEN diag[i] ELSE EmptyEntry]]

InterLoopStart(sl, diag) ==
    [ sl |-> sl, A |-> DiagonalArray(diag), err |-> NoError, at |-> 0, inter |-> 0 ]

\* One pass of the inner loop, for target i and source j (counted from 0).
InterStep(sm, acc, i, j, g) ==
    LET target == sm.solutes[i + 1]
        source == sm.solutes[j + 1]
        sl1 == IF j = 0 THEN [acc.sl EXCEPT ![target].A_inter = << >>] ELSE acc.sl
        sl2 == lhs_inter_solute_interactions(sl1, target, source, g)
        list == sl2[target].A_inter
    IN IF ~IsCrossPair(i, j) THEN [acc EXCEPT !.sl = sl1]
       ELSE IF ~IndexInRange(list, IndexArray(i, j))
       THEN [acc EXCEPT !.sl = sl2, !.err = "IndexError", !.at = target, !.inter = @ + 1]
       ELSE [acc EXCEPT
               !.sl = sl2,
               !.A[i + 1][j + 1] =
                   matrix_to_discrete_form(PyIndex(list, IndexArray(i, j)), "weak"),
               !.inter = @ + 1]

RECURSIVE InterLoop(_, _, _, _)
InterLoop(sm, acc, p, g) ==
    LET M == Len(sm.solutes)
    IN IF p >= M * M \/ acc.err # NoError THEN acc
       ELSE InterLoop(sm, InterStep(sm, acc, p \div M, p % M, g), p + 1, g)

\* ------------------------------------------------------------------------
\* Simulation.create_and_assemble_linear_system
\* ------------------------------------------------------------------------
\* The end of the call: the coupling blocks placed, the system stored.
AssembleCouplings(self, sm2, inter) ==
    IF inter.err # NoError
    THEN [ sim |-> sm2, sol |-> inter.sl, err |-> inter.err, at |-> inter.at,
           lhs |-> self.lhs, inter |-> inter.inter ]
    ELSE [ sim |-> [sm2 EXCEPT !.A_discrete = Some(inter.A),
                               !.rhs_discrete = Some(self.rfd)],
           sol |-> inter.sl, err |-> NoError, at |-> 0,
           lhs |-> self.lhs, inter |-> inter.inter ]

\* After the loop over the solutes: the global preconditioner, then the couplings.
AssembleBlocks(sm, self, g) ==
    LET sm1 == [sm EXCEPT !.rhs = self.srhs]
    IN IF self.err # NoError
       THEN [ sim |-> sm1, sol |-> self.sl, err |-> self.err, at |-> self.at,
              lhs |-> self.lhs, inter |-> 0 ]
       ELSE IF self.pm # << >> /\ ~BmatAccepts(self.pm)
       THEN [ sim |-> sm1, sol |-> self.sl, err |-> "BmatValueError", at |-> 0,
              lhs |-> self.lhs, inter |-> 0 ]
       ELSE AssembleCouplings(self,
               IF self.pm # << >> THEN [sm1 EXCEPT !.precond = Blocks(self.pm)] ELSE sm1,
               InterLoop(sm, InterLoopStart(self.sl, self.diag), 0, g))

\* The outcome of a call numbered g: the Simulation, the solutes, the error.
AssembleLinearSystem(sm, sl, g) ==
    AssembleBlocks(sm, SelfLoop(sm, SelfLoopStart(sm, sl), 1, g), g)

\* The step an entry point takes with the outcome of its calls.
Returns(name, out, calls) ==
    /\ sim' = out.sim
    /\ sol' = out.sol
    /\ gen' = gen + calls
    /\ last' = Op(name, None, out.err, out.at, out.lhs, out.inter)
    /\ UNCHANGED amoeba

create_and_assemble_linear_system ==
    /\ sim.status = "ok"
    /\ Len(sim.solutes) >= 1
    /\ gen < MaxAssemblies
    /\ Returns("create_and_assemble_linear_system",
               AssembleLinearSystem(sim, sol, gen + 1), 1)

\* ------------------------------------------------------------------------
\* Simulation.create_and_assemble_rhs
\* ------------------------------------------------------------------------
\* Mutant of RhsStep: the right-hand-side entry point runs the full step.
RhsStepFull(sm, acc, i, g) == SelfStep(sm, acc, i, g)

\* The end of an iteration: the solute r3 gives its vectors.
RhsStepPlace(sm, acc, i, r3) ==
    [acc EXCEPT
       !.sl[sm.solutes[i]] = r3,
       !.srhs[i] = Some(SoluteRhsRecord(r3)),
       !.rfd = ExtendRhs(@, r3)]

\* solute.apply_preconditioning_rhs() on the solute r2 that holds the new rhs.
RhsStepPrecondition(sm, acc, i, r2) ==
    IF ApplyPreconditioningRhsError(r2) # NoError
    THEN [acc EXCEPT !.sl[sm.solutes[i]] = r2, !.err = ApplyPreconditioningRhsError(r2),
                     !.at = sm.solutes[i]]
    ELSE RhsStepPlace(sm, acc, i, apply_preconditioning_rhs(sm.solutes[i], r2))

\* formulation.rhs on the solute r1 whose formulation is set.
RhsStepBuild(sm, acc, i, r1, g) ==
    IF FormulationSetterError(sm.pb_formulation) # NoError
    THEN [acc EXCEPT !.sl[sm.solutes[i]] = r1,
                     !.err = FormulationSetterError(sm.pb_formulation),
                     !.at = sm.solutes[i]]
    ELSE IF NeedsMissingStern(r1)
    THEN [acc EXCEPT !.sl[sm.solutes[i]] = r1, !.err = "AttributeError",
                     !.at = sm.solutes[i]]
    ELSE RhsStepPrecondition(sm, acc, i, FormulationRhs(sm.solutes[i], r1, g))

RhsStep(sm, acc, i, g) ==
    RhsStepBuild(sm, acc, i,
                 SolutePbFormulationSetter(acc.sl[sm.solutes[i]], sm.pb_formulation), g)

RECURSIVE RhsLoop(_, _, _, _)
RhsLoop(sm, acc, i, g) ==
    IF i > Len(sm.solutes) \/ acc.err # NoError THEN acc
    ELSE RhsLoop(sm, RhsStep(sm, acc, i, g), i + 1, g)

AssembleRhsVectors(sm, loop) ==
    [ sim |-> IF loop.err # NoError THEN [sm EXCEPT !.rhs = loop.srhs]
              ELSE [sm EXCEPT !.rhs = loop.srhs, !.rhs_discrete = Some(loop.rfd)],
      sol |-> loop.sl, err |-> loop.err, at |-> loop.at,
      lhs |-> loop.lhs, inter |-> 0 ]

AssembleRhs(sm, sl, g) ==
    AssembleRhsVectors(sm, RhsLoop(sm, SelfLoopStart(sm, sl), 1, g))

create_and_assemble_rhs ==
    /\ sim.status = "ok"
    /\ Len(sim.solutes) >= 1
    /\ gen < MaxAssemblies
    /\ Returns("create_and_assemble_rhs", AssembleRhs(sim, sol, gen + 1), 1)

\* ------------------------------------------------------------------------
\* Simulation.calculate_surface_potential, Simulation.calculate_solvation_energy
\* ------------------------------------------------------------------------
\* The surface potential of a solute: the solution of the assembled system,
\* restricted to the solute's block.
SurfacePotential(block) == [of |-> block]

NoOutcome(sm, sl) ==
    [ sim |-> sm, sol |-> sl, err |-> NoError, at |-> 0, lhs |-> 0, inter |-> 0, calls |-> 0 ]

\* The outcome of a query after one more assembly a.
Assembled(out, a) ==
    [ sim |-> a.sim, sol |-> a.sol, err |-> a.err, at |-> a.at,
      lhs |-> out.lhs + a.lhs, inter |-> out.inter + a.inter, calls |-> out.calls + 1 ]

\* One assembly inside a query: skipped when an earlier one has raised.
ThenAssemble(out, full, g) ==
    IF out.err # NoError THEN out
    ELSE IF full
    THEN Assembled(out, AssembleLinearSystem(out.sim, out.sol, g + out.calls + 1))
    ELSE Assembled(out, AssembleRhs(out.sim, out.sol, g + out.calls + 1))

\* The linear solve: each solute of the assembled system receives its part
\* of the solution in its results.
Solve(c) ==
    IF c.err # NoError THEN c
    ELSE [c EXCEPT !.sol =
            [s \in SoluteIds |->
               IF Owned(c.sim, s) /\ PositionOf(c.sim, s) <= Len(Get(c.sim.A_discrete))
               THEN [c.sol[s] EXCEPT !.phi =
                       Some(SurfacePotential(
                              Get(c.sim.A_discrete)[PositionOf(c.sim, s)][PositionOf(c.sim, s)]))]
               ELSE c.sol[s]]]

\* The assembly a potential calculation makes when the system is missing.
AssembleMissing(b, g) ==
    IF b.err = NoError /\ (~IsSet(b.sim.A_discrete) \/ ~IsSet(b.sim.rhs_discrete))
    THEN ThenAssemble(b, TRUE, g) ELSE b

\* formulation.calculate_potential(simulation, rerun_all, rerun_rhs):
\* assembles what is asked for or missing, then solves.
FormulationCalculatePotential(out, rerun_all, rerun_rhs, g) ==
    Solve(AssembleMissing(
            IF rerun_all THEN ThenAssemble(out, TRUE, g)
            ELSE IF rerun_rhs THEN ThenAssemble(out, FALSE, g)
            ELSE out, g))

\* Simulation.calculate_surface_potential: formulation_object is None after an
\* assignment of an unknown formulation name.
CalculateSurfacePotential(out, rerun_all, rerun_rhs, g) ==
    IF out.err # NoError THEN out
    ELSE IF out.sim.formulation_object = None
    THEN [out EXCEPT !.err = "AttributeError"]
    ELSE FormulationCalculatePotential(out, rerun_all, rerun_rhs, g)

\* Solute.calculate_solvation_energy: returns at once without a potential.
SoluteSolvationEnergy(r) ==
    IF IsSet(r.phi) THEN [r EXCEPT !.solvation_energy = r.phi] ELSE r

\* if rerun_all: self.calculate_surface_potential(rerun_all=rerun_all)
EnergyRerunAll(out, rerun_all, g) ==
    IF rerun_all THEN CalculateSurfacePotential(out, TRUE, FALSE, g) ELSE out

\* if rerun_rhs: self.calculate_surface_potential(rerun_rhs=rerun_rhs)
EnergyRerunRhs(out, rerun_rhs, g) ==
    IF rerun_rhs THEN CalculateSurfacePotential(out, FALSE, TRUE, g) ELSE out

\* if "phi" not in self.solutes[0].results: self.calculate_surface_potential()
EnergyMissingPotential(out, g) ==
    IF out.err = NoError /\ ~IsSet(out.sol[out.sim.solutes[1]].phi)
    THEN CalculateSurfacePotential(out, FALSE, FALSE, g) ELSE out

\* for index, solute in enumerate(self.solutes): solute.calculate_solvation_energy()
EnergySolutes(out) ==
    IF out.err # NoError THEN out
    ELSE [out EXCEPT !.sol =
            [s \in SoluteIds |->
               IF Owned(out.sim, s) THEN SoluteSolvationEnergy(out.sol[s]) ELSE out.sol[s]]]

SimulationSolvationEnergy(sm, sl, rerun_all, rerun_rhs, g) ==
    EnergySolutes(
        EnergyMissingPotential(
            EnergyRerunRhs(EnergyRerunAll(NoOutcome(sm, sl), rerun_all, g), rerun_rhs, g),
            g))

\* The number of assemblies a query can make.
QueryAssemblies(rerun_all, rerun_rhs) ==
    (IF rerun_all THEN 1 ELSE 0) + (IF rerun_rhs THEN 1 ELSE 0) + 1

SolvationEnergyReturns(out) ==
    Returns("calculate_solvation_energy", out, out.calls)

calculate_solvation_energy(rerun_all, rerun_rhs) ==
    /\ sim.status = "ok"
    /\ Len(sim.solutes) >= 1
    /\ gen + QueryAssemblies(rerun_all, rerun_rhs) <= MaxAssemblies
    /\ SolvationEnergyReturns(SimulationSolvationEnergy(sim, sol, rerun_all, rerun_rhs, gen))

\* ------------------------------------------------------------------------
\* Specification of the assembler: a Simulation of a plain or a Stern
\* formulation, the Solute objects constructed with the defaults (and, for a
\* Stern simulation, given their Stern attributes by the caller); solutes
\* are added in the order of their construction, the preconditioning policy
\* is changed, systems are assembled.
\* ------------------------------------------------------------------------
Init ==
    \E formulation \in {"direct", "direct_stern"} :
        /\ sim = NewSimulation(formulation, FALSE)
        /\ sol = [s \in SoluteIds |->
                    [NewSoluteRecord("direct", "amber")
                       EXCEPT !.user_stern_attrs = IsSternName(formulation)]]
        /\ gen = 0
        /\ amoeba = Absent
        /\ last = Op("Simulation.__init__", formulation, NoError, 0, 0, 0)

Next ==
    \/ \E s \in SoluteIds \cup {NotASolute} : s <= Len(sim.solutes) + 1 /\ add_solute(s)
    \/ \E v \in BOOLEAN : SetSimPreconditioning(v)
    \/ \E v \in PreconditioningTypes : SetSimPreconditioningType(v)
    \/ create_and_assemble_linear_system
    \/ create_and_assemble_rhs

Spec == Init /\ [][Next]_vars

\* ------------------------------------------------------------------------
\* Specification of the shared parameters: the Simulation of the default
\* construction, up to MaxParameterSolutes of the solutes added, the caller
\* having assigned the Stern attributes to all the solutes or to none; every
\* shared parameter is changed, systems are assembled and energies queried.
\* ------------------------------------------------------------------------
MaxParameterSolutes == 2
MaxParameterAssemblies == 1

InitParameters ==
    /\ sim = NewSimulation("direct", FALSE)
    /\ \E attrs \in BOOLEAN :
          sol = [s \in SoluteIds |-> [NewSoluteRecord("direct", "amber")
                                        EXCEPT !.user_stern_attrs = attrs]]
    /\ gen = 0
    /\ amoeba = Absent
    /\ last = Op("Simulation.__init__", "direct", NoError, 0, 0, 0)

NextParameters ==
    \/ \E s \in {NotASolute} \cup 1..MaxParameterSolutes :
          s <= Len(sim.solutes) + 1 /\ add_solute(s)
    \/ \E v \in {"direct_stern", "bogus"} : SetSimPbFormulation(v)
    \/ \E s \in 1..MaxParameterSolutes : SetSolutePbFormulation(s, "direct_stern")
    \/ SetSimPreconditioning(FALSE)
    \/ SetSimPreconditioningType("mass_matrix")
    \/ SetSimKappa(0)
    \/ SetSimEpEx(40)
    \/ gen < MaxParameterAssemblies /\ create_and_assemble_linear_system
    \/ calculate_solvation_energy(FALSE, FALSE)

SpecParameters == InitParameters /\ [][NextParameters]_vars

\* ------------------------------------------------------------------------
\* Specification of construction: a Simulation constructed with any name and
\* either value of stern_layer, up to MaxConstructed Solutes constructed with
\* any name, either force field, from a file that exists or not; formulation
\* names are assigned and solutes added.
\* ------------------------------------------------------------------------
MaxConstructed == 1

NextConstruction ==
    \/ \E s \in 1..MaxConstructed, formulation \in FormulationNames,
          force_field \in ForceFields, file \in BOOLEAN :
          NewSolute(s, formulation, force_field, file)
    \/ \E s \in 1..MaxConstructed : AssignSternAttributes(s)
    \/ \E s \in {NotASolute} \cup 1..MaxConstructed : add_solute(s)
    \/ \E v \in SetterNames : SetSimPbFormulation(v)
    \/ \E s \in 1..MaxConstructed, v \in SetterNames : SetSolutePbFormulation(s, v)

SpecConstruction == InitConstruction /\ [][NextConstruction]_vars

\* ------------------------------------------------------------------------
\* Properties
\* ------------------------------------------------------------------------
M == Len(sim.solutes)
SoluteAt(i) == sol[sim.solutes[i]]
FullAssemblyReturned ==
    last.op = "create_and_assemble_linear_system" /\ last.err = NoError
RhsAssemblyReturned ==
    last.op = "create_and_assemble_rhs" /\ last.err = NoError
GlobalA == Get(sim.A_discrete)

\* C1: after create_and_assemble_linear_system on M >= 1 solutes the block
\* array is M x M and A[i][i] is the A_discrete block of the i-th inserted
\* solute, built for that solute in that same call.
C1_SelfBlocksOnDiagonal ==
    FullAssemblyReturned =>
        /\ IsSet(sim.A_discrete)
        /\ Len(GlobalA) = M
        /\ \A i \in 1..M :
              /\ Len(GlobalA[i]) = M
              /\ IsSet(SoluteAt(i).A_discrete)
              /\ GlobalA[i][i] = Get(SoluteAt(i).A_discrete)
              /\ GlobalA[i][i].kind = "self"
              /\ GlobalA[i][i].target = sim.solutes[i]
              /\ GlobalA[i][i].gen = gen
              /\ GlobalA[i][i].form \in {"weak", "strong"}

\* A second assembly of three solutes has returned.
C1_Witness == FullAssemblyReturned /\ M = 3 /\ gen = 2

\* C2: for every ordered pair (i, j), i # j, A[i][j] is the weak form of the
\* operator the coupling builder appended to the target's A_inter for
\* (target = solute i, source = solute j) in that same call; the index rule
\* never leaves the list, and no off-diagonal entry is unfilled.
C2_CouplingBlocksByPair ==
    /\ last.op = "create_and_assemble_linear_system" => last.err # "IndexError"
    /\ (FullAssemblyReturned /\ M >= 2) =>
          \A i, j \in 1..M : i # j =>
              /\ GlobalA[i][j].kind = "inter"
              /\ GlobalA[i][j].form = "weak"
              /\ GlobalA[i][j].target = sim.solutes[i]
              /\ GlobalA[i][j].source = sim.solutes[j]
              /\ GlobalA[i][j].gen = gen
              /\ Len(SoluteAt(i).A_inter) = M - 1
              /\ GlobalA[i][j] =
                    [SoluteAt(i).A_inter[IF j < i THEN j ELSE j - 1] EXCEPT !.form = "weak"]

\* Three solutes have been assembled a second time.
C2_Witness == FullAssemblyReturned /\ M = 3 /\ gen = 2 /\ GlobalA[3][2].kind = "inter"

\* C3: with exactly one solute the coupling builder is never invoked, the
\* global operator is the solute's own self block alone, and a global
\* preconditioner, when there is one, is the solute's own blocks with no
\* zero block.
C3_SingleSolute ==
    (FullAssemblyReturned /\ M = 1) =>
        /\ last.inter = 0
        /\ GlobalA = << << Get(SoluteAt(1).A_discrete) >> >>
        /\ sim.precond.state = "blocks" =>
              /\ sim.precond.rows = SoluteAt(1).precond.rows
              /\ \A a \in 1..Len(sim.precond.rows) :
                    \A b \in 1..Len(sim.precond.rows[a]) :
                        sim.precond.rows[a][b].kind = "own"

\* One solute has been assembled and a global preconditioner is stored.
C3_Witness == FullAssemblyReturned /\ M = 1 /\ sim.precond.state = "blocks"

\* Sub-blocks per row of a solute's region of the global layout.
SubBlockCount(r) == IF r.stern_object THEN 4 ELSE 2
RECURSIVE RegionOffset(_)
RegionOffset(i) == IF i <= 1 THEN 0 ELSE RegionOffset(i - 1) + SubBlockCount(SoluteAt(i - 1))
TotalSubBlocks == RegionOffset(M + 1)
\* The solute whose region holds global sub-block index a.
RegionOf(a) == CHOOSE i \in 1..M : RegionOffset(i) < a /\ a <= RegionOffset(i + 1)

\* C4: a stored global preconditioner is square, with as many block rows and
\* columns as the sub-blocks of all owned solutes (2 without a Stern layer,
\* 4 with one); solute i's own blocks are in its diagonal region and every
\* cross region (i, j) holds zero blocks of solute i's rows and solute j's
\* columns.
C4_PreconditionerLayout ==
    (FullAssemblyReturned /\ sim.precond.state = "blocks") =>
        LET pm == sim.precond.rows
        IN /\ Len(pm) = TotalSubBlocks
           /\ \A a \in 1..Len(pm) : Len(pm[a]) = TotalSubBlocks
           /\ \A a \in 1..Len(pm) : \A b \in 1..Len(pm[a]) :
                 (a <= TotalSubBlocks /\ b <= TotalSubBlocks) =>
                    LET i == RegionOf(a)
                        j == RegionOf(b)
                    IN IF i = j
                       THEN /\ pm[a][b].kind = "own"
                            /\ pm[a][b].owner = sim.solutes[i]
                       ELSE /\ pm[a][b].kind = "zero"
                            /\ pm[a][b].rows = SubDof(sim.solutes[i], a - RegionOffset(i))
                            /\ pm[a][b].cols = SubDof(sim.solutes[j], b - RegionOffset(j))

\* C5: after either assembly the global discrete right-hand side is the
\* concatenation, in insertion order, of every solute's rhs_discrete, each
\* in its sub-block order.
C5_RhsConcatenation ==
    (FullAssemblyReturned \/ RhsAssemblyReturned) =>
        /\ IsSet(sim.rhs_discrete)
        /\ \A i \in 1..M : IsSet(SoluteAt(i).rhs_discrete)
        /\ Get(sim.rhs_discrete) = Flatten([i \in 1..M |-> Get(SoluteAt(i).rhs_discrete)])
        /\ \A i \in 1..M : \A k \in 1..Len(Get(SoluteAt(i).rhs_discrete)) :
              /\ Get(SoluteAt(i).rhs_discrete)[k].owner = sim.solutes[i]
              /\ Get(SoluteAt(i).rhs_discrete)[k].k = k

\* The right-hand side of two or more solutes has been rebuilt.
C5_Witness == RhsAssemblyReturned /\ M >= 2 /\ IsSet(sim.A_discrete)

\* C6: a step of create_and_assemble_rhs builds no self block, calls the
\* coupling builder never, and leaves the global operator, the global
\* preconditioner and every solute's A, A_discrete, A_inter and
\* preconditioner blocks as they were.
C6_RhsOnlyRebuildsVectors ==
    [][ (last'.op = "create_and_assemble_rhs" /\ gen' = gen + 1) =>
          /\ last'.lhs = 0
          /\ last'.inter = 0
          /\ sim'.A_discrete = sim.A_discrete
          /\ sim'.precond = sim.precond
          /\ \A s \in SoluteIds :
                /\ sol'[s].A = sol[s].A
                /\ sol'[s].A_final = sol[s].A_final
                /\ sol'[s].A_discrete = sol[s].A_discrete
                /\ sol'[s].A_inter = sol[s].A_inter
                /\ sol'[s].precond.rows = sol[s].precond.rows ]_vars

\* The right-hand side has been rebuilt after a full assembly that stored a
\* global preconditioner for two or more solutes.
C6_Witness ==
    /\ RhsAssemblyReturned
    /\ M >= 2
    /\ IsSet(sim.A_discrete)
    /\ sim.precond.state = "blocks"

\* The solute has preconditioning enabled and its formulation has no builder
\* named after its preconditioning type.
NoBuilderFor(r, kind) ==
    ~HasBuilder(r.formulation_object, r.pb_formulation_preconditioning_type, kind)

\* C9: apply_preconditioning raises the configuration error exactly when
\* preconditioning is enabled and the formulation has no builder of the
\* solute's type, and apply_preconditioning_rhs likewise on the path that
\* applies a preconditioner; with preconditioning disabled neither raises it.
C9_PreconditioningError ==
    /\ last.op = "create_and_assemble_linear_system" =>
          /\ last.err = "UnrecognisedPreconditioning" =>
                /\ sol[last.at].pb_formulation_preconditioning
                /\ NoBuilderFor(sol[last.at], "lhs")
          /\ last.err = NoError =>
                \A i \in 1..M :
                    ~(SoluteAt(i).pb_formulation_preconditioning
                        /\ NoBuilderFor(SoluteAt(i), "lhs"))
          /\ (SoluteAt(1).pb_formulation_preconditioning /\ NoBuilderFor(SoluteAt(1), "lhs"))
                => (last.err = "UnrecognisedPreconditioning" /\ last.at = sim.solutes[1])
    /\ last.op = "create_and_assemble_rhs" =>
          /\ last.err = "UnrecognisedPreconditioning" =>
                /\ sol[last.at].pb_formulation_preconditioning
                /\ sol[last.at].precond.state = "none"
                /\ NoBuilderFor(sol[last.at], "rhs")
          /\ last.err = NoError =>
                \A i \in 1..M :
                    ~(SoluteAt(i).pb_formulation_preconditioning
                        /\ SoluteAt(i).precond.state = "none"
                        /\ NoBuilderFor(SoluteAt(i), "rhs"))
          /\ ( /\ SoluteAt(1).pb_formulation_preconditioning
               /\ SoluteAt(1).precond.state = "none"
               /\ NoBuilderFor(SoluteAt(1), "rhs") )
                => (last.err = "UnrecognisedPreconditioning" /\ last.at = sim.solutes[1])

\* An assembly has returned with preconditioning disabled and a
\* preconditioning type that names no builder.
C9_Witness ==
    /\ FullAssemblyReturned
    /\ ~sim.pb_formulation_preconditioning
    /\ sim.pb_formulation_preconditioning_type = "bogus"
    /\ NoBuilderFor(SoluteAt(1), "lhs")

\* ------------------------------------------------------------------------
\* Shared parameters (SpecParameters)
\* ------------------------------------------------------------------------
OwnedSolutes == {s \in SoluteIds : Owned(sim, s)}

\* C7: immediately after an assignment of the simulation's ep_ex, kappa,
\* pb_formulation, pb_formulation_preconditioning or
\* pb_formulation_preconditioning_type, the corresponding attribute of every
\* solute the simulation owns equals the simulation's.
C7_AssignmentReachesEveryOwnedSolute ==
    /\ last.op = "Simulation.ep_ex" =>
          \A s \in OwnedSolutes : sol[s].ep_ex = sim.ep_ex
    /\ last.op = "Simulation.kappa" =>
          \A s \in OwnedSolutes : sol[s].kappa = sim.kappa
    /\ last.op = "Simulation.pb_formulation" =>
          \A s \in OwnedSolutes : sol[s].pb_formulation = sim.pb_formulation
    /\ last.op = "Simulation.pb_formulation_preconditioning" =>
          \A s \in OwnedSolutes :
             sol[s].pb_formulation_preconditioning = sim.pb_formulation_preconditioning
    /\ last.op = "Simulation.pb_formulation_preconditioning_type" =>
          \A s \in OwnedSolutes :
             sol[s].pb_formulation_preconditioning_type
                = sim.pb_formulation_preconditioning_type

\* An operator built under the formulation, ep_ex and kappa solute r has now.
BuiltUnderCurrent(op, r) ==
    /\ op.formulation = r.pb_formulation
    /\ op.ep_ex = r.ep_ex
    /\ op.kappa = r.kappa

\* Everything solute r holds was built under its current values.
HoldsOnlyCurrent(r) ==
    /\ IsSet(r.A) => BuiltUnderCurrent(Get(r.A), r)
    /\ IsSet(r.A_final) => BuiltUnderCurrent(Get(r.A_final), r)
    /\ IsSet(r.A_discrete) => BuiltUnderCurrent(Get(r.A_discrete), r)
    /\ \A k \in 1..Len(r.A_inter) : BuiltUnderCurrent(r.A_inter[k], r)
    /\ r.precond.state = "blocks" =>
          /\ r.pb_formulation_preconditioning
          /\ \A a \in 1..Len(r.precond.rows) : \A b \in 1..Len(r.precond.rows[a]) :
                BuiltUnderCurrent(r.precond.rows[a][b].of, r)
    /\ IsSet(r.phi) => BuiltUnderCurrent(Get(r.phi).of, r)

\* C8: once the formulation, ep_ex, kappa or the preconditioning toggle of a
\* simulation or of a solute has changed, no solute holds operator blocks,
\* preconditioner blocks or a surface potential built under the old value,
\* and an energy query made after the change yields no energy computed from
\* such a potential.
C8_NoBlocksOfOldValues ==
    /\ \A s \in SoluteIds : sol[s].status = "ok" => HoldsOnlyCurrent(sol[s])
    /\ (last.op = "calculate_solvation_energy" /\ last.err = NoError) =>
          \A s \in OwnedSolutes :
             IsSet(sol[s].solvation_energy) =>
                BuiltUnderCurrent(Get(sol[s].solvation_energy).of, sol[s])

\* ------------------------------------------------------------------------
\* Formulation names (SpecConstruction)
\* ------------------------------------------------------------------------
RaisedUnrecognised == last.err = "UnrecognisedFormulation"

NamesAFormulation == {"Simulation.__init__", "Solute.__init__",
                      "Simulation.pb_formulation", "Solute.pb_formulation"}

\* C10 as stated: a construction of a Simulation or of a Solute, or an
\* assignment of pb_formulation of either, raises the unrecognised-formulation
\* error exactly when the name it is given resolves to no formulation.
C10_UnresolvedGivenNameRaises ==
    last.op \in NamesAFormulation =>
        (RaisedUnrecognised <=> Resolve(last.arg) = None)

\* C10 as amended: the name that decides is the one the constructor settles
\* on.  Simulation.__init__ takes "direct_stern" whenever stern_layer is set
\* and the given name is not "slic"; Solute.__init__ takes "direct" for the
\* amoeba force field and returns without raising when its file does not
\* exist; the setters take the name as given.
C10_UnresolvedEffectiveNameRaises ==
    /\ last.op = "Simulation.__init__" =>
          (RaisedUnrecognised <=>
              Resolve(IF last.stern_layer /\ last.arg # "slic"
                      THEN "direct_stern" ELSE last.arg) = None)
    /\ last.op = "Solute.__init__" =>
          (RaisedUnrecognised <=>
              /\ last.file
              /\ Resolve(IF last.force_field = "amoeba" THEN "direct" ELSE last.arg) = None)
    /\ last.op \in {"Simulation.pb_formulation", "Solute.pb_formulation"} =>
          (RaisedUnrecognised <=> Resolve(last.arg) = None)

\* A Simulation constructed with an unknown name and a Stern layer exists, and
\* an assignment of an unknown name to it has raised.
C10_Witness ==
    /\ last.op = "Simulation.pb_formulation"
    /\ last.arg = "bogus"
    /\ RaisedUnrecognised
    /\ sim.status = "ok"
    /\ \E s \in SoluteIds : sol[s].status = "bare"

\* ------------------------------------------------------------------------
\* Errors (SpecParameters)
\* ------------------------------------------------------------------------
ConfigurationErrors == {"UnrecognisedFormulation", "UnrecognisedPreconditioning"}

\* What C11 lists of the simulation.
SimulationResult(sm) ==
    << sm.pb_formulation, sm.formulation_object, sm.A_discrete, sm.precond,
       sm.rhs_discrete, sm.rhs >>

\* C11: an operation that fails with a configuration error leaves the
\* simulation's formulation name and object, its global operator, global
\* preconditioner, global right-hand side and per-solute right-hand-side
\* records as they were before the operation.
C11_ConfigurationErrorLeavesNoPartialResult ==
    [][ last'.err \in ConfigurationErrors =>
            SimulationResult(sim') = SimulationResult(sim) ]_vars

\* Two owned solutes whose interface layouts disagree: one has a Stern layer,
\* the other has none.
LayoutsDisagree(sm, sl) ==
    \E i, j \in 1..Len(sm.solutes) :
        sl[sm.solutes[i]].stern_object # sl[sm.solutes[j]].stern_object

\* C12: an assembly over solutes whose layouts disagree fails with a
\* shape-mismatch error and stores no global preconditioner.
C12_LayoutMismatchIsRejected ==
    [][ (last'.op = "create_and_assemble_linear_system" /\ gen' # gen
           /\ LayoutsDisagree(sim', sol')) =>
            /\ last'.err = "ShapeMismatchError"
            /\ sim'.precond = sim.precond ]_vars

\* ------------------------------------------------------------------------
\* AMOEBA multipoles: the particle data of a Solute of the amoeba force field
\* ------------------------------------------------------------------------
MaxParticles == 2

\* Scale factors in hundredths: ScaleUnit is the factor 1.0.
ScaleUnit == 100
P12Values == {0, 50}
P13Values == {50}

\* Particles lie on the x axis at whole length units; two particles are
\* either coincident or at least one length unit apart.
Coordinates == {0, 1}

\* The first-order induced dipoles of the body as one value: where the
\* iteration started and how many relaxation steps it has taken since.
Dipoles(seed, steps) == [seed |-> seed, steps |-> steps]
Zeros == Dipoles("zeros", 0)

Indices(n) == [k \in 1..n |-> k]

RECURSIVE SortedSeq(_)
SortedSeq(S) ==
    IF S = {} THEN << >>
    ELSE LET m == CHOOSE x \in S : \A y \in S : x <= y
         IN <<m>> \o SortedSeq(S \ {m})

\* CSR layout of per-particle neighbour lists: the concatenated lists and the
\* offsets (0-based, one more than particles) of each particle's slice.
CsrConnections(lists) == Flatten([i \in 1..Len(lists) |-> SortedSeq(lists[i])])
CsrPointers(lists) ==
    [k \in 1..(Len(lists) + 1) |->
        Len(Flatten([i \in 1..(k - 1) |-> SortedSeq(lists[i])]))]

NoResults ==
    [ induced_dipole |-> Absent, induced_dipole_vacuum |-> Absent,
      d_phi_coulomb_multipole |-> Absent, gradphir_charges |-> Absent,
      dipole_iter_count_vacuum |-> Absent ]

\* Solute.__init__ for force_field "amoeba": the arrays charge_tools reads
\* from the file, empty results, and zero induced dipoles.
NewAmoeba(x_q, q, d, Q, polar_group, lists_12, lists_13, p12scale, p13scale) ==
    [ x_q |-> x_q, q |-> q, d |-> d, Q |-> Q, polar_group |-> polar_group,
      connections_12 |-> CsrConnections(lists_12),
      pointer_connections_12 |-> CsrPointers(lists_12),
      connections_13 |-> CsrConnections(lists_13),
      pointer_connections_13 |-> CsrPointers(lists_13),
      p12scale |-> p12scale, p13scale |-> p13scale,
      results |-> NoResults,
      d_induced |-> Zeros,
      induced_dipole_iter_tol |-> Absent ]

\* ------------------------------------------------------------------------
\* Distances
\* ------------------------------------------------------------------------
\* Rnorm = sqrt(sum(Ri*Ri) + eps*eps) with eps = 1e-15, as whole length units
\* plus a count of eps: eps itself for the particle and for a coincident one,
\* the separation (eps*eps is lost in rounding) for particles a length unit
\* or more apart.
Separation(b, i, j) ==
    IF b.x_q[i] >= b.x_q[j] THEN b.x_q[i] - b.x_q[j] ELSE b.x_q[j] - b.x_q[i]
Rnorm(b, i, j) ==
    [ units |-> Separation(b, i, j),
      eps |-> IF Separation(b, i, j) = 0 THEN 1 ELSE 0 ]

AboveCutoffAlways(R) == TRUE

\* np.where(Rnorm > 1e-12) and, for r = 1/Rnorm, np.where(r < 1e12).
AboveCutoff(R) == R.units >= 1

\* ------------------------------------------------------------------------
\* The permanent-multipole routines (potential, gradient, Hessian).  Dipoles
\* and quadrupoles have an x component only.
\* ------------------------------------------------------------------------
\* Potentials are held in sixteenths of the kernel's unit, plus a count of
\* 1/eps = 1e15 for the terms of coincident particles.
PhiScale == 16

OthersAndSelf(n, i) == Indices(n)

\* np.delete(..., i): the arrays without the entry of particle i.
Others(n, i) == SelectSeq(Indices(n), LAMBDA j : j # i)

\* q[j]*T0 + T1.d[j] + 0.5*T2:Q[j] with T0 = 1/Rnorm, T1 = Ri/Rnorm**3 and
\* T2 = Ri Ri/Rnorm**5; Ri = 0 for a coincident particle.
PhiTerm(b, i, j) ==
    LET R == Rnorm(b, i, j)
        Ri == b.x_q[i] - b.x_q[j]
        r == R.units
    IN IF R.eps = 1
       THEN [ source |-> j, sixteenths |-> 0, per_eps |-> b.q[j] ]
       ELSE [ source |-> j,
              sixteenths |-> b.q[j] * (PhiScale \div r)
                             + Ri * b.d[j] * (PhiScale \div (r * r * r))
                             + (Ri * Ri * b.Q[j] * PhiScale) \div (2 * r * r * r * r * r),
              per_eps |-> 0 ]

RECURSIVE SumSixteenths(_)
SumSixteenths(terms) ==
    IF terms = << >> THEN 0 ELSE Head(terms).sixteenths + SumSixteenths(Tail(terms))

RECURSIVE SumPerEps(_)
SumPerEps(terms) ==
    IF terms = << >> THEN 0 ELSE Head(terms).per_eps + SumPerEps(Tail(terms))

PhiRow(b, i) ==
    LET src == Others(Len(b.x_q), i)
    IN [k \in 1..Len(src) |-> PhiTerm(b, i, src[k])]

coulomb_phi_multipole(b) ==
    [ rows |-> [i \in 1..Len(b.x_q) |-> PhiRow(b, i)],
      phi |-> [i \in 1..Len(b.x_q) |->
                  [ sixteenths |-> SumSixteenths(PhiRow(b, i)),
                    per_eps |-> SumPerEps(PhiRow(b, i)) ]] ]

PermanentSources(b, i) ==
    SelectSeq(Indices(Len(b.x_q)), LAMBDA j : AboveCutoff(Rnorm(b, i, j)))

not_same_polar_group_whatever_the_flag(b, i, j, flag_polar_group) ==
    b.polar_group[i] # b.polar_group[j]

not_same_polar_group(b, i, j, flag_polar_group) ==
    IF flag_polar_group = FALSE THEN TRUE
    ELSE b.polar_group[i] # b.polar_group[j]

\* scale3, scale5 and scale7 are 1.0 until the polar-group branch computes
\* them from the Thole damping of the pair.
GradientRow(b, i, flag_polar_group) ==
    LET src == SelectSeq(PermanentSources(b, i),
                         LAMBDA j : not_same_polar_group(b, i, j, flag_polar_group))
    IN [k \in 1..Len(src) |->
           [ source |-> src[k], damped |-> flag_polar_group, order |-> 1 ]]

coulomb_dphi_multipole(b, flag_polar_group) ==
    [ rows |-> [i \in 1..Len(b.x_q) |-> GradientRow(b, i, flag_polar_group)] ]

coulomb_ddphi_multipole(b) ==
    [ rows |-> [i \in 1..Len(b.x_q) |->
                  LET src == PermanentSources(b, i)
                  IN [k \in 1..Len(src) |->
                         [ source |-> src[k], damped |-> FALSE, order |-> 2 ]]] ]

\* ------------------------------------------------------------------------
\* The three Thole routines (potential, gradient, Hessian of the induced
\* dipoles).  A row is the sequence of the terms accumulated for particle i,
\* in loop order.
\* ------------------------------------------------------------------------
Listed(connections, pointers, i, j) ==
    \E ii \in (pointers[i] + 1)..pointers[i + 1] : connections[ii] = j

\* pscale = 1.0; the loop over the 1-2 slice assigns p12scale on a match; the
\* loop over the 1-3 slice runs after it and assigns p13scale on a match.
PScale(b, i, j, p12scale, p13scale) ==
    LET after_12 == IF Listed(b.connections_12, b.pointer_connections_12, i, j)
                    THEN p12scale ELSE ScaleUnit
    IN IF Listed(b.connections_13, b.pointer_connections_13, i, j)
       THEN p13scale ELSE after_12

TholeSources(b, i) ==
    SelectSeq(Indices(Len(b.x_q)), LAMBDA j : AboveCutoff(Rnorm(b, i, j)))

TholeTerm(b, i, j, p12scale, p13scale, order) ==
    [ source |-> j, pscale |-> PScale(b, i, j, p12scale, p13scale),
      damped |-> TRUE, order |-> order ]

TholeRows(b, p12scale, p13scale, order) ==
    [i \in 1..Len(b.x_q) |->
        LET src == TholeSources(b, i)
        IN [k \in 1..Len(src) |-> TholeTerm(b, i, src[k], p12scale, p13scale, order)]]

coulomb_phi_multipole_Thole(b, induced_dipole, p12scale, p13scale) ==
    [ of |-> induced_dipole, rows |-> TholeRows(b, p12scale, p13scale, 0) ]

coulomb_dphi_multipole_Thole(b, induced_dipole, p12scale, p13scale) ==
    [ of |-> induced_dipole, rows |-> TholeRows(b, p12scale, p13scale, 1) ]

coulomb_ddphi_multipole_Thole(b, induced_dipole, p12scale, p13scale) ==
    [ of |-> induced_dipole, rows |-> TholeRows(b, p12scale, p13scale, 2) ]

\* The methods read the induced dipoles of the state asked for, and the
\* scale factors the body holds at the time of the call.
States == {"dissolved", "vacuum"}
InducedDipoleOf(b, state) ==
    IF state = "dissolved" THEN b.results.induced_dipole
    ELSE b.results.induced_dipole_vacuum

TholeRoutines ==
    {"calculate_coulomb_phi_multipole_Thole",
     "calculate_coulomb_dphi_multipole_Thole",
     "calculate_coulomb_ddphi_multipole_Thole"}

TholeKernel(name, b, induced_dipole) ==
    IF name = "calculate_coulomb_phi_multipole_Thole"
    THEN coulomb_phi_multipole_Thole(b, induced_dipole, b.p12scale, b.p13scale)
    ELSE IF name = "calculate_coulomb_dphi_multipole_Thole"
    THEN coulomb_dphi_multipole_Thole(b, induced_dipole, b.p12scale, b.p13scale)
    ELSE coulomb_ddphi_multipole_Thole(b, induced_dipole, b.p12scale, b.p13scale)

\* A call of a routine of the body: its name, argument, exception and value.
Call(name, arg, err, value) == [op |-> name, arg |-> arg, err |-> err, value |-> value]

calculate_coulomb_multipole_Thole(name, state) ==
    /\ amoeba # Absent
    /\ last' = IF IsSet(InducedDipoleOf(amoeba, state))
               THEN Call(name, state, NoError,
                         TholeKernel(name, amoeba, Get(InducedDipoleOf(amoeba, state))))
               ELSE Call(name, state, "KeyError", None)
    /\ UNCHANGED <<sim, sol, gen, amoeba>>

calculate_coulomb_phi_multipole ==
    /\ amoeba # Absent
    /\ last' = Call("calculate_coulomb_phi_multipole", None, NoError,
                    coulomb_phi_multipole(amoeba))
    /\ UNCHANGED <<sim, sol, gen, amoeba>>

calculate_coulomb_dphi_multipole(flag_polar_group) ==
    /\ amoeba # Absent
    /\ last' = Call("calculate_coulomb_dphi_multipole", flag_polar_group, NoError,
                    coulomb_dphi_multipole(amoeba, flag_polar_group))
    /\ UNCHANGED <<sim, sol, gen, amoeba>>

calculate_coulomb_ddphi_multipole ==
    /\ amoeba # Absent
    /\ last' = Call("calculate_coulomb_ddphi_multipole", None, NoError,
                    coulomb_ddphi_multipole(amoeba))
    /\ UNCHANGED <<sim, sol, gen, amoeba>>

\* ------------------------------------------------------------------------
\* Specification of the multipole kernels: a body of up to MaxParticles
\* particles, either with any exclusion topology or with any charges and
\* polar groups, and the kernel routines called on it
\* ------------------------------------------------------------------------
NeighbourLists(n) ==
    { lists \in [1..n -> SUBSET (1..n)] : \A i \in 1..n : i \notin lists[i] }

CoordinateLists(n, coordinates) == { x \in [1..n -> coordinates] : x[1] = 0 }

InitTopology ==
    \E n \in 1..MaxParticles :
      \E x_q \in CoordinateLists(n, Coordinates), lists_12 \in NeighbourLists(n),
         lists_13 \in NeighbourLists(n), p12scale \in P12Values, p13scale \in P13Values :
        amoeba = [ NewAmoeba(x_q, [i \in 1..n |-> 1], [i \in 1..n |-> 0],
                             [i \in 1..n |-> 0], [i \in 1..n |-> 1],
                             lists_12, lists_13, p12scale, p13scale)
                   EXCEPT !.results.induced_dipole_vacuum = Some(Dipoles("caller", 0)) ]

Charges == {-1, 1}
Moments == {0, 1}
PolarGroups == {1, 2}
FarCoordinates == {0, 1, 2}

InitCharges ==
    \E n \in 1..MaxParticles :
      \E x_q \in CoordinateLists(n, FarCoordinates), q \in [1..n -> Charges],
         d \in Moments, Q \in Moments, polar_group \in [1..n -> PolarGroups] :
        amoeba = [ NewAmoeba(x_q, q, [i \in 1..n |-> d], [i \in 1..n |-> Q], polar_group,
                             [i \in 1..n |-> {}], [i \in 1..n |-> {}], 0, 50)
                   EXCEPT !.results.induced_dipole_vacuum = Some(Dipoles("caller", 0)) ]

InitMultipole ==
    /\ sim = NoSimulation
    /\ sol = [s \in SoluteIds |-> NoSolute]
    /\ gen = 0
    /\ last = Call("Solute.__init__", "amoeba", NoError, None)
    /\ (InitTopology \/ InitCharges)

NextMultipole ==
    \/ calculate_coulomb_phi_multipole
    \/ \E flag_polar_group \in BOOLEAN : calculate_coulomb_dphi_multipole(flag_polar_group)
    \/ calculate_coulomb_ddphi_multipole
    \/ \E name \in TholeRoutines, state \in States :
          calculate_coulomb_multipole_Thole(name, state)

SpecMultipole == InitMultipole /\ [][NextMultipole]_vars

\* ------------------------------------------------------------------------
\* Properties of the multipole kernels
\* ------------------------------------------------------------------------
N == Len(amoeba.x_q)
TholeReturned == last.op \in TholeRoutines /\ last.err = NoError
ListedIn12(i, j) == Listed(amoeba.connections_12, amoeba.pointer_connections_12, i, j)
ListedIn13(i, j) == Listed(amoeba.connections_13, amoeba.pointer_connections_13, i, j)

GradientReturned(flag_polar_group) ==
    /\ last.op = "calculate_coulomb_dphi_multipole"
    /\ last.arg = flag_polar_group
Sources(row) == { row[k].source : k \in 1..Len(row) }
DifferentPolarGroup(i, j) == amoeba.polar_group[i] # amoeba.polar_group[j]
Coincident(i, j) == i # j /\ amoeba.x_q[i] = amoeba.x_q[j]

\* C14 as stated: with polar-group differentiation enabled particle j
\* contributes to the permanent-multipole gradient at particle i if and only
\* if j != i and the two have different polar-group ids, and the contribution
\* is Thole-damped; with it disabled every particle j != i contributes and all
\* damping scale factors are 1.
C14_GradientSourcesByPolarGroup ==
    /\ GradientReturned(TRUE) =>
          \A i \in 1..N :
              /\ Sources(last.value.rows[i]) = { j \in 1..N : j # i /\ DifferentPolarGroup(i, j) }
              /\ \A k \in 1..Len(last.value.rows[i]) : last.value.rows[i][k].damped
    /\ GradientReturned(FALSE) =>
          \A i \in 1..N :
              /\ Sources(last.value.rows[i]) = { j \in 1..N : j # i }
              /\ \A k \in 1..Len(last.value.rows[i]) : ~last.value.rows[i][k].damped

\* C14, amended: the particles that can contribute are those whose
\* regularised distance from i exceeds 1e-12, which leaves out i and every
\* particle coincident with it; among these, with polar-group differentiation
\* enabled exactly those of a different polar group contribute, Thole-damped,
\* and with it disabled all of them contribute with scale factors 1.
C14_GradientSourcesBeyondCutoff ==
    /\ GradientReturned(TRUE) =>
          \A i \in 1..N :
              /\ Sources(last.value.rows[i]) =
                    { j \in 1..N : j # i /\ ~Coincident(i, j) /\ DifferentPolarGroup(i, j) }
              /\ \A k \in 1..Len(last.value.rows[i]) : last.value.rows[i][k].damped
    /\ GradientReturned(FALSE) =>
          \A i \in 1..N :
              /\ Sources(last.value.rows[i]) = { j \in 1..N : j # i /\ ~Coincident(i, j) }
              /\ \A k \in 1..Len(last.value.rows[i]) : ~last.value.rows[i][k].damped

C14_Witness ==
    /\ GradientReturned(TRUE)
    /\ N = 2
    /\ DifferentPolarGroup(1, 2)
    /\ Sources(last.value.rows[1]) = {2}
    /\ last.value.rows[1][1].damped

KernelRoutines ==
    TholeRoutines \cup {"calculate_coulomb_phi_multipole",
                        "calculate_coulomb_dphi_multipole",
                        "calculate_coulomb_ddphi_multipole"}
KernelReturned == last.op \in KernelRoutines /\ last.err = NoError

PotentialReturned == last.op = "calculate_coulomb_phi_multipole"

\* Two particles with charges +1 and -1, no dipole and no quadrupole, one
\* length unit apart.
UnitChargePair ==
    /\ N = 2
    /\ {amoeba.q[1], amoeba.q[2]} = {1, -1}
    /\ \A i \in 1..2 : amoeba.d[i] = 0 /\ amoeba.Q[i] = 0
    /\ Separation(amoeba, 1, 2) = 1

Potential(value) == [sixteenths |-> value * PhiScale, per_eps |-> 0]

\* C16 as stated: for charges +1 and -1 with zero dipole and quadrupole, one
\* length unit apart, the permanent-multipole potential routine returns 1.0
\* at each of the two particles.
C16_UnitPotentialAtEachParticle ==
    (PotentialReturned /\ UnitChargePair) =>
        \A i \in 1..2 : last.value.phi[i] = Potential(1)

\* C16, amended: the routine returns at each of the two particles the charge
\* of the other particle times 1/1.0: -1.0 at the particle of charge +1 and
\* +1.0 at the particle of charge -1.
C16_SignedUnitPotential ==
    (PotentialReturned /\ UnitChargePair) =>
        \A i \in 1..2 : last.value.phi[i] = Potential(amoeba.q[3 - i])

C16_Witness ==
    /\ PotentialReturned
    /\ UnitChargePair
    /\ amoeba.q[1] = 1
    /\ last.value.phi[1] = Potential(-1)
    /\ last.value.phi[2] = Potential(1)

\* ------------------------------------------------------------------------
\* The induced-dipole solver
\* ------------------------------------------------------------------------
MaxIterations == 2
MaxRelaxations == 2

\* Residuals and tolerances in thousandths: ResidualUnit is the residual 1.
\* the vacuum loop starts with; 10 is the tolerance 1e-2 of Simulation.
ResidualUnit == 1000
Residuals == {5, 10, 50}
Tolerances == {10, 1000}

\* self.p12scale = u12scale; self.p13scale = u13scale
Overridden(b) == [b EXCEPT !.p12scale = ScaleUnit, !.p13scale = ScaleUnit]

\* self.p12scale = p12scale_temp; self.p13scale = p13scale_temp
Restored(b, p12scale_temp, p13scale_temp) ==
    [b EXCEPT !.p12scale = p12scale_temp, !.p13scale = p13scale_temp]

\* The permanent-multipole gradient is computed once and kept in results.
WithPermanentGradient(b) ==
    IF IsSet(b.results.d_phi_coulomb_multipole) THEN b
    ELSE [b EXCEPT !.results.d_phi_coulomb_multipole = Some(coulomb_dphi_multipole(b, TRUE))]

RelaxTwice(d_induced) == Dipoles(d_induced.seed, d_induced.steps + 2)

\* The loop over the particles: each induced dipole becomes the blend of its
\* old value and the polarisation by the total field, weighted by SOR.
Relax(d_induced) == Dipoles(d_induced.seed, d_induced.steps + 1)

\* The array being updated in place: the entries of the first particles
\* already hold their new value, the others the value of the start of the step.
EntryAt(d_induced, updated, i) ==
    IF i <= updated THEN Relax(d_induced) ELSE d_induced

StepFieldOfUpdatedArray(dphi_Thole, updated) ==
    IF updated = 0 THEN dphi_Thole.of ELSE Relax(dphi_Thole.of)

\* dphi_coul = results["d_phi_coulomb_multipole"] + dphi_Thole is formed
\* before the loop over the particles; E_total of particle i reads dphi_coul[i].
StepField(dphi_Thole, updated) == dphi_Thole.of

\* for i in range(N): what the update of each particle reads.
RECURSIVE UpdateLoop(_, _, _, _)
UpdateLoop(d_induced, dphi_Thole, n, updated) ==
    IF updated >= n THEN << >>
    ELSE << [ particle |-> updated + 1,
              d_old |-> EntryAt(d_induced, updated, updated + 1),
              field_of |-> StepField(dphi_Thole, updated) ] >>
         \o UpdateLoop(d_induced, dphi_Thole, n, updated + 1)

DipoleOutcome(b, err, evaluations, residuals, updates) ==
    [ body |-> b, err |-> err, evaluations |-> evaluations, residuals |-> residuals,
      updates |-> updates ]

\* calculate_induced_dipole_dissolved from the sum of the gradients on: the
\* reaction-field gradient and the stored dipoles are looked up, every dipole
\* is updated in the stored array, which is copied to self.d_induced.
DissolvedUpdate(b, dphi_Thole) ==
    IF ~IsSet(b.results.gradphir_charges)
    THEN DipoleOutcome(b, "KeyError", <<dphi_Thole>>, << >>, << >>)
    ELSE DipoleOutcome([b EXCEPT !.d_induced = Relax(Get(b.results.induced_dipole)),
                                 !.results.induced_dipole = Some(Relax(Get(@)))],
                       NoError, <<dphi_Thole>>, << >>,
                       << UpdateLoop(Get(b.results.induced_dipole), dphi_Thole,
                                     Len(b.x_q), 0) >>)

\* The Thole gradient of the stored dipoles under the scale factors the body
\* holds, then the saved scale factors are put back.
DissolvedGradient(b, p12scale_temp, p13scale_temp) ==
    IF ~IsSet(InducedDipoleOf(b, "dissolved"))
    THEN DipoleOutcome(b, "KeyError", << >>, << >>, << >>)
    ELSE DissolvedUpdate(Restored(b, p12scale_temp, p13scale_temp),
                         TholeKernel("calculate_coulomb_dphi_multipole_Thole", b,
                                     Get(InducedDipoleOf(b, "dissolved"))))

InducedDipoleDissolved(b) ==
    DissolvedGradient(WithPermanentGradient(Overridden(b)), b.p12scale, b.p13scale)

VacuumStartFromStored(b) ==
    IF IsSet(b.results.induced_dipole_vacuum) THEN Get(b.results.induced_dipole_vacuum)
    ELSE Zeros

\* d_induced = np.zeros_like(self.d)
VacuumStart(b) == Zeros

\* One pass of the while loop: the Thole gradient of the vacuum dipoles with
\* the scale factors overridden and put back, and the update of every dipole
\* in the array results["induced_dipole_vacuum"] refers to.
VacuumEvaluation(b) ==
    TholeKernel("calculate_coulomb_dphi_multipole_Thole", Overridden(b),
                Get(InducedDipoleOf(Overridden(b), "vacuum")))

VacuumUpdateOfBothStates(b) ==
    [ Restored(Overridden(b), b.p12scale, b.p13scale)
        EXCEPT !.results.induced_dipole_vacuum = Some(Relax(Get(@))),
               !.d_induced = Relax(Get(b.results.induced_dipole_vacuum)) ]

VacuumUpdate(b) ==
    [ Restored(Overridden(b), b.p12scale, b.p13scale)
        EXCEPT !.results.induced_dipole_vacuum = Some(Relax(Get(@))) ]

\* while induced_dipole_residual > self.induced_dipole_iter_tol; upcoming is
\* the residuals the coming passes will find.  A loop that uses them up
\* without leaving is still running.
VacuumUpdates(b) ==
    UpdateLoop(Get(b.results.induced_dipole_vacuum), VacuumEvaluation(b), Len(b.x_q), 0)

RECURSIVE VacuumLoop(_, _, _, _, _, _)
VacuumLoop(b, induced_dipole_residual, upcoming, evaluations, residuals, updates) ==
    IF ~(induced_dipole_residual > Get(b.induced_dipole_iter_tol))
    THEN DipoleOutcome(b, NoError, evaluations, residuals, updates)
    ELSE IF upcoming = << >>
    THEN DipoleOutcome(b, "Running", evaluations, residuals, updates)
    ELSE VacuumLoop(VacuumUpdate(b), Head(upcoming), Tail(upcoming),
                    Append(evaluations, VacuumEvaluation(b)),
                    Append(residuals, Head(upcoming)),
                    Append(updates, VacuumUpdates(b)))

InducedDipoleVacuum(b, upcoming) ==
    VacuumLoop([WithPermanentGradient(b)
                  EXCEPT !.results.induced_dipole_vacuum = Some(VacuumStart(b)),
                         !.results.dipole_iter_count_vacuum = Some(0)],
               ResidualUnit, upcoming, << >>, << >>, << >>)

DipoleCallReturns(name, out) ==
    /\ amoeba' = out.body
    /\ last' = Call(name, None, out.err,
                    [evaluations |-> out.evaluations, residuals |-> out.residuals,
                     updates |-> out.updates])
    /\ UNCHANGED <<sim, sol, gen>>

calculate_induced_dipole_dissolved ==
    /\ amoeba # Absent
    /\ IsSet(amoeba.results.induced_dipole) =>
          Get(amoeba.results.induced_dipole).steps < MaxRelaxations
    /\ DipoleCallReturns("calculate_induced_dipole_dissolved", InducedDipoleDissolved(amoeba))

calculate_induced_dipole_vacuum ==
    /\ amoeba # Absent
    /\ \E upcoming \in [1..MaxIterations -> Residuals] :
          /\ InducedDipoleVacuum(amoeba, upcoming).err = NoError
          /\ DipoleCallReturns("calculate_induced_dipole_vacuum",
                               InducedDipoleVacuum(amoeba, upcoming))

\* The caller of the dissolved step stores the dipoles it starts from.
StoreInducedDipole ==
    /\ amoeba # Absent
    /\ amoeba.results.induced_dipole # Some(Dipoles("caller", 0))
    /\ amoeba' = [amoeba EXCEPT !.results.induced_dipole = Some(Dipoles("caller", 0))]
    /\ last' = Call("results[induced_dipole]", None, NoError, None)
    /\ UNCHANGED <<sim, sol, gen>>

\* self.results["gradphir_charges"] = dphidr
calculate_gradient_field ==
    /\ amoeba # Absent
    /\ ~IsSet(amoeba.results.gradphir_charges)
    /\ amoeba' = [amoeba EXCEPT !.results.gradphir_charges = Some("dphidr")]
    /\ last' = Call("calculate_gradient_field", None, NoError, None)
    /\ UNCHANGED <<sim, sol, gen>>

\* ------------------------------------------------------------------------
\* Specification of the induced-dipole solver: a body of two bonded particles
\* added to a Simulation, and the solver called on it in both regimes
\* ------------------------------------------------------------------------
InitInducedDipole ==
    /\ sim = NoSimulation
    /\ sol = [s \in SoluteIds |-> NoSolute]
    /\ gen = 0
    /\ last = Call("add_solute", "amoeba", NoError, None)
    /\ \E p12scale \in P12Values, p13scale \in P13Values, tol \in Tolerances :
          amoeba = [ NewAmoeba(<<0, 1>>, <<1, -1>>, <<0, 0>>, <<0, 0>>, <<1, 2>>,
                               <<{2}, {1}>>, <<{}, {}>>, p12scale, p13scale)
                     EXCEPT !.induced_dipole_iter_tol = Some(tol) ]

NextInducedDipole ==
    \/ calculate_induced_dipole_dissolved
    \/ calculate_induced_dipole_vacuum
    \/ StoreInducedDipole
    \/ calculate_gradient_field
    \/ calculate_coulomb_phi_multipole
    \/ \E flag_polar_group \in BOOLEAN : calculate_coulomb_dphi_multipole(flag_polar_group)
    \/ calculate_coulomb_ddphi_multipole
    \/ \E name \in TholeRoutines, state \in States :
          calculate_coulomb_multipole_Thole(name, state)

SpecInducedDipole == InitInducedDipole /\ [][NextInducedDipole]_vars

\* ------------------------------------------------------------------------
\* Properties of the induced-dipole solver
\* ------------------------------------------------------------------------
VacuumReturned(call) == call.op = "calculate_induced_dipole_vacuum" /\ call.err = NoError
DissolvedCalled(call) == call.op = "calculate_induced_dipole_dissolved"
DissolvedReturned(call) == DissolvedCalled(call) /\ call.err = NoError
Tolerance == Get(amoeba.induced_dipole_iter_tol)

\* C17: every vacuum call starts its iteration from all-zero induced dipoles,
\* whatever vacuum result an earlier call left; every dissolved call starts
\* from the induced dipoles the caller or the previous dissolved call stored.
C17_SeedOfEachRegime ==
    [][ /\ VacuumReturned(last') =>
              /\ last'.value.evaluations # << >> => last'.value.evaluations[1].of = Zeros
              /\ amoeba'.results.induced_dipole_vacuum =
                    Some(Dipoles("zeros", Len(last'.value.evaluations)))
        /\ (DissolvedCalled(last') /\ last'.value.evaluations # << >>) =>
              last'.value.evaluations[1].of = Get(amoeba.results.induced_dipole)
        /\ DissolvedReturned(last') =>
              Get(amoeba'.results.induced_dipole).seed = Get(amoeba.results.induced_dipole).seed
      ]_vars

C17_Witness ==
    /\ DissolvedReturned(last)
    /\ last.value.evaluations[1].of = Dipoles("caller", 1)
    /\ IsSet(amoeba.results.induced_dipole_vacuum)
    /\ Get(amoeba.results.induced_dipole_vacuum).steps >= 1

\* C18: the vacuum loop keeps iterating while the root-mean-square change of
\* the induced dipoles exceeds induced_dipole_iter_tol and stops at the first
\* iteration whose change does not exceed it; it returns only when some
\* iteration has reached the tolerance, and on return the change of the last
\* performed iteration is at most the tolerance.
C18_ReturnsWhenAnIterationReachesTolerance ==
    VacuumReturned(last) =>
        LET residuals == last.value.residuals
        IN /\ residuals # << >>
           /\ residuals[Len(residuals)] <= Tolerance
           /\ \A k \in 1..(Len(residuals) - 1) : residuals[k] > Tolerance

\* C19: each dissolved call performs exactly one relaxation step: one
\* evaluation of the Thole gradient, of the stored dipoles, and one update of
\* every dipole, stored both as results["induced_dipole"] and as d_induced, so
\* that n successive calls are n successive steps of the same iteration.
C19_OneRelaxationStepPerCall ==
    [][ DissolvedReturned(last') =>
          LET before == Get(amoeba.results.induced_dipole)
          IN /\ Len(last'.value.evaluations) = 1
             /\ last'.value.evaluations[1].of = before
             /\ amoeba'.results.induced_dipole = Some(Dipoles(before.seed, before.steps + 1))
             /\ amoeba'.d_induced = Dipoles(before.seed, before.steps + 1)
      ]_vars

C19_Witness ==
    /\ DissolvedReturned(last)
    /\ amoeba.results.induced_dipole = Some(Dipoles("caller", 2))
    /\ amoeba.d_induced = Dipoles("caller", 2)

EvaluatedUnscaled(evaluation) ==
    \A i \in 1..Len(evaluation.rows) : \A k \in 1..Len(evaluation.rows[i]) :
        evaluation.rows[i][k].pscale = ScaleUnit

\* C20: in both regimes the Thole gradient is evaluated with both exclusion
\* scale factors equal to 1.0, and no vacuum or dissolved call leaves the body
\* with other scale factors than the configured ones it had before the call.
C20_ScaleFactorsRestored ==
    [][ (VacuumReturned(last') \/ DissolvedCalled(last')) =>
          /\ \A e \in 1..Len(last'.value.evaluations) :
                EvaluatedUnscaled(last'.value.evaluations[e])
          /\ amoeba'.p12scale = amoeba.p12scale
          /\ amoeba'.p13scale = amoeba.p13scale
      ]_vars

SolverReturned(call) == VacuumReturned(call) \/ DissolvedReturned(call)

\* C21: within one relaxation step of either regime every particle's new
\* dipole is formed from its own old dipole and from a field evaluated from
\* the dipoles of all particles as they stood at the start of the step, and in
\* the vacuum loop each iteration's Thole gradient is evaluated from the
\* dipoles the preceding iteration produced.
C21_UpdatesReadStartOfStep ==
    SolverReturned(last) =>
        /\ Len(last.value.updates) = Len(last.value.evaluations)
        /\ \A s \in 1..Len(last.value.updates) :
              /\ Len(last.value.updates[s]) = N
              /\ \A i \in 1..N :
                    /\ last.value.updates[s][i].particle = i
                    /\ last.value.updates[s][i].d_old = last.value.evaluations[s].of
                    /\ last.value.updates[s][i].field_of = last.value.evaluations[s].of
        /\ VacuumReturned(last) =>
              \A s \in 1..Len(last.value.evaluations) :
                  last.value.evaluations[s].of = Dipoles("zeros", s - 1)

C21_Witness ==
    /\ VacuumReturned(last)
    /\ Len(last.value.updates) = 2
    /\ last.value.updates[2][2].field_of = Dipoles("zeros", 1)

ParticleAttributes(b) ==
    << b.x_q, b.q, b.d, b.Q, b.polar_group, b.connections_12, b.pointer_connections_12,
       b.connections_13, b.pointer_connections_13 >>
DissolvedState(b) == << b.results.induced_dipole, b.d_induced >>
VacuumState(b) == b.results.induced_dipole_vacuum

\* C22: a call of a multipole kernel changes no per-particle attribute and no
\* induced-dipole state; of the routines of the body only
\* calculate_induced_dipole_dissolved changes the dissolved state and only
\* calculate_induced_dipole_vacuum the vacuum state, so a vacuum solve leaves
\* the dissolved state and a dissolved step the vacuum state as they were.
\* (The caller's own assignment to results["induced_dipole"] also sets the
\* dissolved state.)
C22_KernelsAndSolversFrame ==
    [][ /\ ParticleAttributes(amoeba') = ParticleAttributes(amoeba)
        /\ last'.op \in KernelRoutines =>
              /\ DissolvedState(amoeba') = DissolvedState(amoeba)
              /\ VacuumState(amoeba') = VacuumState(amoeba)
        /\ DissolvedState(amoeba') # DissolvedState(amoeba) =>
              last'.op \in {"calculate_induced_dipole_dissolved", "results[induced_dipole]"}
        /\ VacuumState(amoeba') # VacuumState(amoeba) =>
              last'.op = "calculate_induced_dipole_vacuum"
      ]_vars

C22_Witness ==
    /\ VacuumReturned(last)
    /\ Len(last.value.updates) >= 1
    /\ DissolvedState(amoeba) = << Some(Dipoles("caller", 1)), Dipoles("caller", 1) >>

\* ------------------------------------------------------------------------
\* Further properties of the assembler
\* ------------------------------------------------------------------------
ProducesBlocks ==
    /\ sim.pb_formulation_preconditioning
    /\ sim.pb_formulation_preconditioning_type = "block_diagonal"

\* C23: a full assembly made while preconditioning is disabled, or while the
\* active scheme produces no block preconditioner, leaves the simulation
\* without a global preconditioner; a global preconditioner present after an
\* assembly was built in that assembly from blocks produced in it.
C23_NoPreconditionerOfEarlierAssembly ==
    FullAssemblyReturned =>
        /\ ~ProducesBlocks => sim.precond.state # "blocks"
        /\ sim.precond.state = "blocks" =>
              \A a \in 1..Len(sim.precond.rows) : \A b \in 1..Len(sim.precond.rows[a]) :
                  sim.precond.rows[a][b].kind = "own" =>
                      sim.precond.rows[a][b].of.gen = gen

\* C24: the record the simulation keeps under rhs_<k> has one entry per
\* sub-block of the k-th solute, two without a Stern layer and four with one,
\* after a full assembly under any preconditioning scheme and after
\* create_and_assemble_rhs alike.
C24_RhsRecordPerSubBlock ==
    (FullAssemblyReturned \/ RhsAssemblyReturned) =>
        \A k \in 1..M :
            /\ IsSet(sim.rhs[k])
            /\ Len(Get(sim.rhs[k])) = SubBlockCount(SoluteAt(k))

\* The last operation was add_solute, handed the object `at`.
AddSoluteStepOf(at) == last'.op = "add_solute" /\ last'.at = at

\* C25: the solute list only grows, at its end and by a Solute that
\* add_solute accepted and that was not in it: adding a solute that is already
\* owned leaves the list and the parameters of every solute as they were,
\* adding an object that is not a Solute raises and leaves the list as it was,
\* and no other operation changes the list.
C25_ListGrowsByAcceptedSolutesOnly ==
    [][ /\ last'.op # "add_solute" => sim'.solutes = sim.solutes
        /\ AddSoluteStepOf(NotASolute) =>
              last'.err = "ValueError" /\ sim'.solutes = sim.solutes
        /\ \A s \in SoluteIds : AddSoluteStepOf(s) =>
              /\ Owned(sim, s) => last'.err = NoError /\ sim' = sim /\ sol' = sol
              /\ last'.err # NoError => sim'.solutes = sim.solutes
              /\ ~Owned(sim, s) /\ last'.err = NoError =>
                    sim'.solutes = Append(sim.solutes, s)
      ]_vars

\* An object that is not a Solute was refused by a simulation that owns
\* three solutes, added in the order of their construction.
C25_Witness ==
    /\ last.op = "add_solute"
    /\ last.err = "ValueError"
    /\ sim.solutes = <<1, 2, 3>>

\* C26: right after add_solute has accepted a solute that was not owned, the
\* solute's formulation name is the simulation's, for an AMOEBA solute (which
\* switches the simulation to direct_amoeba) and for a solute constructed
\* with another formulation than the simulation's alike.
C26_AddedSoluteHasSimulationFormulation ==
    [][ \A s \in SoluteIds :
           AddSoluteStepOf(s) /\ ~Owned(sim, s) /\ last'.err = NoError =>
               sol'[s].pb_formulation = sim'.pb_formulation
      ]_vars

\* The preconditioning type a Simulation of the given formulation starts with.
StartingType(name) ==
    IF name \in {"direct", "direct_stern", "slic", "direct_amoeba"}
    THEN "block_diagonal" ELSE "mass_matrix"

\* C27: a Simulation constructed with a resulting formulation of direct,
\* direct_stern, slic or direct_amoeba starts with the preconditioning type
\* block_diagonal and with any other formulation with mass_matrix, and every
\* solute added afterwards receives the simulation's type.
C27_StartingPreconditioningType ==
    /\ last.op = "Simulation.__init__" /\ last.err = NoError =>
          sim.pb_formulation_preconditioning_type = StartingType(sim.pb_formulation)
    /\ last.op = "add_solute" /\ last.err = NoError =>
          sol[last.at].pb_formulation_preconditioning_type =
              sim.pb_formulation_preconditioning_type

\* The assembled system has one block row per owned solute.
SystemOfCurrentSolutes == IsSet(sim.A_discrete) /\ Len(Get(sim.A_discrete)) = M

\* C28: when Simulation.calculate_solvation_energy returns, with the rerun
\* flags at their defaults, every owned solute holds a solvation energy, and
\* it was computed from the solute's part of the solution of a system
\* assembled for the current list of solutes, solutes added after an earlier
\* potential calculation included.
C28_EnergyOfEveryOwnedSolute ==
    (last.op = "calculate_solvation_energy" /\ last.err = NoError) =>
        /\ SystemOfCurrentSolutes
        /\ \A k \in 1..M :
              /\ IsSet(SoluteAt(k).solvation_energy)
              /\ Get(SoluteAt(k).solvation_energy) =
                     SurfacePotential(Get(sim.A_discrete)[k][k])

\* C29: after any sequence of add_solute calls and ep_ex assignments on the
\* simulation, every owned solute's pb_formulation_beta is its ep_ex divided
\* by its ep_in.
C29_BetaIsPermittivityRatio ==
    \A k \in 1..M :
        SoluteAt(k).pb_formulation_beta = SoluteAt(k).ep_ex \div SoluteAt(k).ep_in

\* C30: when calculate_induced_dipole_vacuum returns, the result entry
\* dipole_iter_count_vacuum is the number of relaxation iterations the call
\* performed.
C30_IterationCountStored ==
    VacuumReturned(last) =>
        amoeba.results.dipole_iter_count_vacuum = Some(Len(last.value.residuals))
====
